---- MODULE Spec2Model ----
(***************************************************************************)
(* Navifare MCP server: the poll orchestrator (src/src/navifare.ts) and    *)
(* the protocol dispatchers that call it (http-server.js, stdio-server.js).*)
(*                                                                         *)
(* Every request handler is an async function: it runs atomically between  *)
(* two awaits, and handlers of different requests interleave at the awaits.*)
(* One action of this model is one such atomic stretch of one handler.     *)
(***************************************************************************)
EXTENDS Integers, Sequences, FiniteSets, TLC

\* Two handler activations that may be in flight at the same time; a new
\* request takes the first one that is free.
Handlers == {"A", "B"}
HandlerOrder == [A |-> 1, B |-> 2]

\* ---- bounds of the model ----
MaxResults == 1      \* an upstream result list has 0..MaxResults entries
MaxRequests == 2     \* protocol requests received in one behaviour
MaxLegs == 2         \* trip.legs has 0..MaxLegs entries
MaxRawResults == 2   \* a results array to format has 0..MaxRawResults entries
MaxRefreshes == 3    \* callTool calls the widget makes in one behaviour
MaxPriceLen == 4     \* a price string has 0..MaxPriceLen characters
MaxTimeLen == 5      \* a time string has 0..MaxTimeLen characters

\* ---- program constants ----
maxAttempts == 10
pollInterval == 6000

VARIABLES
  pc,                \* position of each handler (the await it is suspended at)
  request_id,        \* submit_and_poll_session's local request_id
  attempt,           \* the loop variable of the poll loop
  submits,           \* POST /session calls issued by the handler
  sleeps,            \* sleep(pollInterval) calls started by the handler
  fetches,           \* GET /session/{id} calls issued by the handler
  everResults,       \* (directly invoked orchestrations) some loop attempt
                     \* saw results.length > 0
  everFailed,        \* (directly invoked orchestrations) some loop attempt
                     \* ended in the catch block
  outcome,           \* what submit_and_poll_session returned or threw
  issued,            \* sessions the upstream has created so far
  req,               \* the request each handler is serving
  out,               \* the responses each handler has written for its request
  lastFlightResults, \* global.lastFlightResults of the HTTP server
  received,          \* requests received so far (the client's requestId counter)
  toolArgs,          \* (argument normalisation) the arguments of a tools/call
  submitted,         \* (argument normalisation) the body a dispatcher hands
                     \* to the upstream client for them
  jsonData,              \* (result formatting) the body of a 2xx GET /session/{id}
  formatted,         \* (result formatting) what get_session_results returns
                     \* for it
  cleanedArgs,       \* (trip summary) the argument of generateTripSummary
  tripSummary,       \* (trip summary) what generateTripSummary returns for it
  geminiReply,       \* (HTTP variant with parsing) what the parsing
                     \* collaborator gave back
  handled,           \* (HTTP variant with parsing) what handleStartFlightSearch
                     \* did with it
  toolOutput,        \* (results widget) window.openai.toolOutput
  effectDeps,        \* (results widget) the dependencies the auto-refresh
                     \* effect last ran with
  timer,             \* (results widget) the effect's setTimeout is pending
  calling,           \* (results widget) a callTool('get_session_results')
                     \* is in flight
  refreshes          \* (results widget) callTool calls made so far

pollVars == <<pc, request_id, attempt, submits, sleeps, fetches,
              everResults, everFailed, outcome>>
dispVars == <<req, out, lastFlightResults, received>>
formatVars == <<jsonData, formatted>>
summaryVars == <<cleanedArgs, tripSummary>>
parseVars == <<geminiReply, handled>>
widgetVars == <<toolOutput, effectDeps, timer, calling, refreshes>>
sideVars == <<summaryVars, parseVars, widgetVars>>
normVars == <<toolArgs, submitted, formatVars, sideVars>>
vars == <<pollVars, issued, dispVars, normVars>>

\* ---- values ----
NoId == 0
Absent == -1                      \* a response without a results array
Statuses == {"IN_PROGRESS", "COMPLETED", "UNKNOWN"}

\* What one GET /session/{id} can produce: a non-2xx response, or a body.
FetchReplies ==
  [ok : {FALSE}, status : {"UNKNOWN"}, results : {Absent}]
    \cup [ok : {TRUE}, status : Statuses, results : {Absent} \cup (0..MaxResults)]

\* The reply get_session_results throws on: a non-2xx response.
FetchFailed == [ok |-> FALSE, status |-> "UNKNOWN", results |-> Absent]

\* What one POST /session can produce: a non-2xx response, a body without
\* request_id, or a body carrying the id of the session just created.
SubmitReplies == {"http_error", "no_request_id", "created"}

\* The replies of an upstream that follows its interface: a failure, or one
\* of the two documented statuses with a results array, empty or not.
DocumentedReplies ==
  {raw \in FetchReplies :
     raw.ok => raw.results \in {0, 1} /\ raw.status \in {"IN_PROGRESS", "COMPLETED"}}

NoFetch == [seq |-> 0, threw |-> FALSE, request_id |-> NoId,
            status |-> "UNKNOWN", totalResults |-> Absent, formatted |-> FALSE]
NoOutcome == [kind |-> "none", error |-> "", value |-> NoFetch]

Len0(n) == IF n = Absent THEN 0 ELSE n

\* get_session_results(id) on the reply `raw`: throws on a non-2xx response;
\* formats the results when data.results is an array, else returns data.
\* seq numbers the GET within the invocation.
get_session_results(id, raw, n) ==
  IF ~raw.ok
    THEN [seq |-> n, threw |-> TRUE, request_id |-> id, status |-> "UNKNOWN",
          totalResults |-> Absent, formatted |-> FALSE]
    ELSE [seq |-> n, threw |-> FALSE, request_id |-> id, status |-> raw.status,
          totalResults |-> raw.results, formatted |-> raw.results # Absent]

Returned(v) == [kind |-> "returned", error |-> "", value |-> v]
Threw(msg) == [kind |-> "threw", error |-> msg, value |-> NoFetch]

\* ---- protocol values ----

WidgetUri == "ui://widget/flight-results.html"
MethodNotFound == -32601
InvalidParams == -32602
InternalError == -32603

RECURSIVE SeqsUpTo(_, _)
SeqsUpTo(n, S) ==
  IF n = 0 THEN {<<>>}
  ELSE LET shorter == SeqsUpTo(n - 1, S)
       IN shorter \cup {Append(q, x) : q \in {t \in shorter : Len(t) = n - 1}, x \in S}

\* params.arguments of a tools/call: absent, or an object whose trip.legs is
\* absent or a list of legs, each leg given by whether it has a non-empty
\* segments array, and whose request_id names a session (NoId: none given).
NoArgs == [present |-> FALSE, hasLegs |-> FALSE, legs |-> <<>>, request_id |-> NoId]
TripArgs ==
  [present : {TRUE}, hasLegs : {FALSE}, legs : {<<>>}, request_id : {NoId}]
    \cup [present : {TRUE}, hasLegs : {TRUE},
          legs : SeqsUpTo(MaxLegs, BOOLEAN), request_id : {NoId}]
SessionArgs ==
  [present : {TRUE}, hasLegs : {FALSE}, legs : {<<>>}, request_id : 1..MaxRequests]

HttpTools == {"search_flights", "submit_session", "get_session_results"}

NoRequest == [transport |-> "none", id |-> 0, method |-> "", hasParams |-> FALSE,
              uri |-> "", tool |-> "", args |-> NoArgs]
Request(t, i, m, p, u, n, a) ==
  [transport |-> t, id |-> i, method |-> m, hasParams |-> p, uri |-> u,
   tool |-> n, args |-> a]

\* The bodies POST /mcp can receive with JSON-RPC id i.
HttpRequests(i) ==
  {Request("http", i, m, FALSE, "", "", NoArgs) :
     m \in {"initialize", "notifications/initialized", "initialized",
            "tools/list", "resources/list", "resources/subscribe",
            "resources/read", "tools/call"}}
  \cup {Request("http", i, "resources/read", TRUE, u, "", NoArgs) :
          u \in {WidgetUri, "ui://widget/other.html"}}
  \cup {Request("http", i, "tools/call", TRUE, "", "search_flights", a) :
          a \in {NoArgs} \cup TripArgs}
  \cup {Request("http", i, "tools/call", TRUE, "", "submit_session", a) :
          a \in {[NoArgs EXCEPT !.present = TRUE]}}
  \cup {Request("http", i, "tools/call", TRUE, "", "get_session_results", a) :
          a \in {NoArgs} \cup SessionArgs}
  \cup {Request("http", i, "tools/call", TRUE, "", "book_flight", a) :
          a \in {[NoArgs EXCEPT !.present = TRUE]}}

StdioTools == {"flight_pricecheck", "format_flight_pricecheck_request"}

\* The chunks stdin can deliver as request number i: a line that is not JSON,
\* or a request object.
StdioRequests(i) ==
  {Request("stdio", i, m, FALSE, "", "", NoArgs) :
     m \in {"<invalid json>", "initialize", "tools/list", "resources/list",
            "tools/call"}}
  \cup {Request("stdio", i, "tools/call", TRUE, "", n, a) :
          n \in StdioTools \cup {"book_flight"},
          a \in {NoArgs, [NoArgs EXCEPT !.present = TRUE]}}

\* What a response carries besides the envelope fields.
Null == [tag |-> "null", request_id |-> NoId, status |-> "",
         totalResults |-> Absent, tripSummary |-> "null"]
Static(what) == [Null EXCEPT !.tag = what]

\* global.lastFlightResults before its first assignment.
Undefined == Static("undefined")

\* Variant of WidgetToolOutput without the fallback for an empty slot.
WidgetToolOutput_NoFallback(slot) == slot

\* What resources/read injects as window.openai.toolOutput: the slot when it
\* is truthy, else the literal null.
WidgetToolOutput(slot) == IF slot = Undefined THEN Null ELSE slot

\* result.resources / result.contents, empty for every other response.
Envelope(i, http, kind, code, data, payload) ==
  [id |-> i, http |-> http, kind |-> kind, code |-> code, data |-> data,
   payload |-> payload, contents |-> <<>>]
WithContents(env, items) == [env EXCEPT !.contents = items]

\* The descriptor resources/list returns.
ResourceDescriptor == [uri |-> WidgetUri, mimeType |-> "text/html+skybridge"]

\* Variant of ReadContent with a plain HTML type.
ReadContent_PlainHtml == [uri |-> WidgetUri, mimeType |-> "text/html"]

\* The uri and mimeType of the content resources/read returns.
ReadContent == [uri |-> WidgetUri, mimeType |-> "text/html+skybridge"]

\* Variant of ResultEnvelope that takes the id of the request received last.
ResultEnvelope_LastReceived(i, payload) ==
  Envelope(received, 200, "result", 0, "", payload)

ResultEnvelope(i, payload) == Envelope(i, 200, "result", 0, "", payload)

\* Variant of ErrorEnvelope that answers with an empty success result.
ErrorEnvelope_AsResult(i, http, code, data) ==
  Envelope(i, 200, "result", 0, "", Null)

ErrorEnvelope(i, http, code, data) == Envelope(i, http, "error", code, data, Null)

\* sanitizeSubmitArgs on the structure of its argument: a missing trip or
\* trip.legs becomes an empty legs array, the legs keep their segments.
sanitizeSubmitArgs(rawArgs) ==
  IF ~rawArgs.present THEN rawArgs
  ELSE [rawArgs EXCEPT !.hasLegs = TRUE]

\* generateTripSummary: null without legs or when the first or last leg has
\* no segments, else a summary whose route is one-way or round-trip.
generateTripSummary(flightData) ==
  IF ~flightData.present \/ ~flightData.hasLegs \/ Len(flightData.legs) = 0
    THEN "null"
  ELSE IF ~flightData.legs[1] \/ ~flightData.legs[Len(flightData.legs)]
    THEN "null"
  ELSE IF Len(flightData.legs) = 1 THEN "one-way"
  ELSE "round-trip"

\* Variant of ValidateSearch without the round-trip check.
ValidateSearch_NoRoundTrip(args) ==
  IF ~args.present THEN "TypeError"
  ELSE IF ~args.hasLegs \/ Len(args.legs) = 0 THEN "Missing flight information"
  ELSE IF \E k \in 1..Len(args.legs) : ~args.legs[k]
    THEN "Missing flight segments"
  ELSE "ok"

\* The checks of a search-type tools/call before anything is submitted:
\* "ok", or the message of the Error that is thrown.
ValidateSearch(args) ==
  IF ~args.present THEN "TypeError"
  ELSE IF ~args.hasLegs \/ Len(args.legs) = 0 THEN "Missing flight information"
  ELSE IF Len(args.legs) < 2 THEN "Navifare requires round-trip flights"
  ELSE IF \E k \in 1..Len(args.legs) : ~args.legs[k]
    THEN "Missing flight segments"
  ELSE "ok"

\* A new activation on handler h: fresh locals, suspended at `at` with
\* nsub POSTs and nget GETs issued on the way there.
Activate(h, at, nsub, nget) ==
  /\ pc' = [pc EXCEPT ![h] = at]
  /\ request_id' = [request_id EXCEPT ![h] = NoId]
  /\ attempt' = [attempt EXCEPT ![h] = 0]
  /\ submits' = [submits EXCEPT ![h] = nsub]
  /\ sleeps' = [sleeps EXCEPT ![h] = 0]
  /\ fetches' = [fetches EXCEPT ![h] = nget]
  /\ everResults' = [everResults EXCEPT ![h] = FALSE]
  /\ everFailed' = [everFailed EXCEPT ![h] = FALSE]
  /\ outcome' = [outcome EXCEPT ![h] = NoOutcome]

\* res.json / res.end of handler h: the response is written and the
\* activation is over, its locals are gone.
Respond(h, env) ==
  /\ out' = [out EXCEPT ![h] = Append(@, env)]
  /\ Activate(h, "responded", 0, 0)

\* Variant of HttpCatch in which the exception escapes the handler.
HttpCatch_Unhandled(h, message) ==
  Activate(h, "silent", 0, 0) /\ UNCHANGED out

\* The catch block of app.post('/mcp').
HttpCatch(h, message) ==
  Respond(h, ErrorEnvelope(req[h].id, 500, InternalError, message))

\* Variant of HttpToolDone that stores the result of every tool.
HttpToolDone_AlwaysStores(h, o) ==
  IF o.kind = "threw"
    THEN /\ HttpCatch(h, o.error)
         /\ UNCHANGED lastFlightResults
  ELSE LET result ==
             [tag |-> IF req[h].tool = "search_flights" THEN "enhanced" ELSE "text",
              request_id |-> o.value.request_id,
              status |-> o.value.status, totalResults |-> o.value.totalResults,
              tripSummary |-> IF req[h].tool = "search_flights"
                                THEN generateTripSummary(sanitizeSubmitArgs(req[h].args))
                                ELSE "null"]
       IN /\ lastFlightResults' = result
          /\ Respond(h, ResultEnvelope(req[h].id, result))

\* Variant of HttpToolDone in which a search stores its result unless a
\* search received later has been seen.
HttpToolDone_NewestWins(h, o) ==
  IF o.kind = "threw"
    THEN /\ HttpCatch(h, o.error)
         /\ UNCHANGED lastFlightResults
  ELSE LET result ==
             [tag |-> IF req[h].tool = "search_flights" THEN "enhanced" ELSE "text",
              request_id |-> o.value.request_id,
              status |-> o.value.status, totalResults |-> o.value.totalResults,
              tripSummary |-> IF req[h].tool = "search_flights"
                                THEN generateTripSummary(sanitizeSubmitArgs(req[h].args))
                                ELSE "null"]
       IN /\ lastFlightResults' =
               IF /\ req[h].tool = "search_flights"
                  /\ \A g \in Handlers :
                       req[g].tool = "search_flights" => req[g].id <= req[h].id
                 THEN result ELSE lastFlightResults
          /\ Respond(h, ResultEnvelope(req[h].id, result))

\* Variant of HttpToolDone in which a failed tool call empties the slot.
HttpToolDone_FailureClearsSlot(h, o) ==
  IF o.kind = "threw"
    THEN /\ HttpCatch(h, o.error)
         /\ lastFlightResults' = Undefined
  ELSE LET result ==
             [tag |-> IF req[h].tool = "search_flights" THEN "enhanced" ELSE "text",
              request_id |-> o.value.request_id,
              status |-> o.value.status, totalResults |-> o.value.totalResults,
              tripSummary |-> IF req[h].tool = "search_flights"
                                THEN generateTripSummary(sanitizeSubmitArgs(req[h].args))
                                ELSE "null"]
       IN /\ lastFlightResults' =
               IF req[h].tool = "search_flights" THEN result ELSE lastFlightResults
          /\ Respond(h, ResultEnvelope(req[h].id, result))

\* tools/call after the awaited tool function settled with `o`: the response
\* is built, global.lastFlightResults is written for search_flights.
HttpToolDone(h, o) ==
  IF o.kind = "threw"
    THEN /\ HttpCatch(h, o.error)
         /\ UNCHANGED lastFlightResults
  ELSE IF req[h].tool = "search_flights"
    THEN LET enhancedResult ==
               [tag |-> "enhanced", request_id |-> o.value.request_id,
                status |-> o.value.status, totalResults |-> o.value.totalResults,
                tripSummary |-> generateTripSummary(sanitizeSubmitArgs(req[h].args))]
         IN /\ lastFlightResults' = enhancedResult
            /\ Respond(h, ResultEnvelope(req[h].id, enhancedResult))
  ELSE /\ Respond(h, ResultEnvelope(req[h].id,
                       [tag |-> "text", request_id |-> o.value.request_id,
                        status |-> o.value.status,
                        totalResults |-> o.value.totalResults,
                        tripSummary |-> "null"]))
       /\ UNCHANGED lastFlightResults

\* tools/call of the stdio server after submit_and_poll_session settled with
\* `o`: a thrown error becomes the text of a result.
StdioToolDone(h, o) ==
  Respond(h, ResultEnvelope(req[h].id,
               IF o.kind = "threw" THEN Static("Flight search failed")
               ELSE [tag |-> "text", request_id |-> o.value.request_id,
                     status |-> o.value.status,
                     totalResults |-> o.value.totalResults,
                     tripSummary |-> "null"]))

\* ---- submit_and_poll_session ----

\* The call: submit_session(input) is started and awaited.
PollStart(h) == Activate(h, "submit", 1, 0)

\* The history of an orchestration is recorded when it is invoked directly.
Observed(h) == req[h].transport = "direct"

\* The resolution of submit_and_poll_session: `o` goes to the caller, which
\* runs on with it. seen, failed: what the settling loop attempt adds to
\* everResults, everFailed.
PollEnd(h, o, seen, failed) ==
  IF req[h].transport = "http"
    THEN /\ HttpToolDone(h, o)
         /\ UNCHANGED <<req, received>>
  ELSE IF req[h].transport = "stdio"
    THEN /\ StdioToolDone(h, o)
         /\ UNCHANGED <<req, received, lastFlightResults>>
    ELSE /\ pc' = [pc EXCEPT ![h] = "done"]
         /\ outcome' = [outcome EXCEPT ![h] = o]
         /\ everResults' = [everResults EXCEPT ![h] = @ \/ seen]
         /\ everFailed' = [everFailed EXCEPT ![h] = @ \/ failed]
         /\ UNCHANGED <<request_id, attempt, submits, sleeps, fetches, dispVars>>

\* Variant of SubmitSettles without the request_id check.
SubmitSettles_NoIdCheck(h, reply) ==
  /\ pc[h] = "submit"
  /\ issued' = IF reply = "created" THEN issued + 1 ELSE issued
  /\ IF reply = "http_error"
       THEN PollEnd(h, Threw("Navifare API error"), FALSE, FALSE)
       ELSE /\ request_id' = [request_id EXCEPT
                 ![h] = IF reply = "created" THEN issued + 1 ELSE NoId]
            /\ attempt' = [attempt EXCEPT ![h] = 1]
            /\ sleeps' = [sleeps EXCEPT ![h] = 1]
            /\ pc' = [pc EXCEPT ![h] = "sleep"]
            /\ UNCHANGED <<submits, fetches, everResults, everFailed,
                           outcome, dispVars>>
  /\ UNCHANGED normVars

\* Variant of SubmitSettles that keeps the id in a variable all invocations
\* share.
SubmitSettles_SharedId(h, reply) ==
  /\ pc[h] = "submit"
  /\ issued' = IF reply = "created" THEN issued + 1 ELSE issued
  /\ IF reply = "http_error"
       THEN PollEnd(h, Threw("Navifare API error"), FALSE, FALSE)
       ELSE IF reply = "no_request_id"
         THEN PollEnd(h, Threw("No request_id returned from submit_session"),
                      FALSE, FALSE)
         ELSE /\ request_id' = [g \in Handlers |->
                                 IF g = h \/ request_id[g] # NoId
                                   THEN issued + 1 ELSE request_id[g]]
              /\ attempt' = [attempt EXCEPT ![h] = 1]
              /\ sleeps' = [sleeps EXCEPT ![h] = 1]
              /\ pc' = [pc EXCEPT ![h] = "sleep"]
              /\ UNCHANGED <<submits, fetches, everResults, everFailed,
                             outcome, dispVars>>
  /\ UNCHANGED normVars

\* Variant of SubmitSettles whose first GET is issued without a sleep.
SubmitSettles_FetchesAtOnce(h, reply) ==
  /\ pc[h] = "submit"
  /\ issued' = IF reply = "created" THEN issued + 1 ELSE issued
  /\ IF reply = "http_error"
       THEN PollEnd(h, Threw("Navifare API error"), FALSE, FALSE)
       ELSE IF reply = "no_request_id"
         THEN PollEnd(h, Threw("No request_id returned from submit_session"),
                      FALSE, FALSE)
         ELSE /\ request_id' = [request_id EXCEPT ![h] = issued + 1]
              /\ attempt' = [attempt EXCEPT ![h] = 1]
              /\ fetches' = [fetches EXCEPT ![h] = 1]
              /\ pc' = [pc EXCEPT ![h] = "fetch"]
              /\ UNCHANGED <<submits, sleeps, everResults, everFailed,
                             outcome, dispVars>>
  /\ UNCHANGED normVars

\* submit_session settles; on a request_id the loop starts with attempt 1
\* and its sleep.
SubmitSettles(h, reply) ==
  /\ pc[h] = "submit"
  /\ issued' = IF reply = "created" THEN issued + 1 ELSE issued
  /\ IF reply = "http_error"
       THEN PollEnd(h, Threw("Navifare API error"), FALSE, FALSE)
       ELSE IF reply = "no_request_id"
         THEN PollEnd(h, Threw("No request_id returned from submit_session"),
                      FALSE, FALSE)
         ELSE /\ request_id' = [request_id EXCEPT ![h] = issued + 1]
              /\ attempt' = [attempt EXCEPT ![h] = 1]
              /\ sleeps' = [sleeps EXCEPT ![h] = 1]
              /\ pc' = [pc EXCEPT ![h] = "sleep"]
              /\ UNCHANGED <<submits, fetches, everResults, everFailed,
                             outcome, dispVars>>
  /\ UNCHANGED normVars

\* Variant of SleepEnds in which the timer never fires.
SleepEnds_TimerLost(h) ==
  /\ pc[h] = "sleep"
  /\ UNCHANGED vars

\* The sleep of the current attempt ends; the attempt's GET is issued.
SleepEnds(h) ==
  /\ pc[h] = "sleep"
  /\ pc' = [pc EXCEPT ![h] = "fetch"]
  /\ fetches' = [fetches EXCEPT ![h] = @ + 1]
  /\ UNCHANGED <<request_id, attempt, submits, sleeps, everResults,
                 everFailed, outcome, issued, dispVars>>
  /\ UNCHANGED normVars

\* Variants of the loop body: COMPLETED returns only with results;
\* the last-attempt test never fires; the last attempt returns even when empty.
LoopDecision_NeedsResults(r, att) ==
  IF r.threw THEN "continue"
  ELSE IF r.status = "COMPLETED" /\ Len0(r.totalResults) > 0 THEN "return"
  ELSE IF Len0(r.totalResults) > 0 /\ att = maxAttempts THEN "return"
  ELSE "continue"
LoopDecision_OffByOne(r, att) ==
  IF r.threw THEN "continue"
  ELSE IF r.status = "COMPLETED" THEN "return"
  ELSE IF Len0(r.totalResults) > 0 /\ att > maxAttempts THEN "return"
  ELSE "continue"
LoopDecision_ReturnsAtLast(r, att) ==
  IF r.threw THEN "continue"
  ELSE IF r.status = "COMPLETED" THEN "return"
  ELSE IF att = maxAttempts THEN "return"
  ELSE "continue"

\* Variant of the loop body whose last-attempt return wants the status
\* IN_PROGRESS.
LoopDecision_KnownStatusOnly(r, att) ==
  IF r.threw THEN "continue"
  ELSE IF r.status = "COMPLETED" THEN "return"
  ELSE IF Len0(r.totalResults) > 0 /\ att = maxAttempts /\ r.status = "IN_PROGRESS"
    THEN "return"
  ELSE "continue"

\* Variant of the loop body that returns at any attempt that has results.
LoopDecision_ReturnsAnyResults(r, att) ==
  IF r.threw THEN "continue"
  ELSE IF r.status = "COMPLETED" THEN "return"
  ELSE IF Len0(r.totalResults) > 0 THEN "return"
  ELSE "continue"

\* The loop body after the await of get_session_results: "return" the
\* snapshot, or "continue" with the next iteration.
LoopDecision(r, att) ==
  IF r.threw THEN "continue"
  ELSE IF r.status = "COMPLETED" THEN "return"
  ELSE IF Len0(r.totalResults) > 0 /\ att = maxAttempts THEN "return"
  ELSE "continue"

\* Variant of FetchSettles without the try/catch around the attempt.
FetchSettles_NoCatch(h, raw) ==
  /\ pc[h] = "fetch"
  /\ LET r == get_session_results(request_id[h], raw, fetches[h])
         seen == ~r.threw /\ Len0(r.totalResults) > 0
     IN IF r.threw
          THEN PollEnd(h, Threw("Navifare API error"), FALSE, TRUE)
        ELSE IF LoopDecision(r, attempt[h]) = "return"
          THEN PollEnd(h, Returned(r), seen, FALSE)
          ELSE /\ everResults' = [everResults EXCEPT ![h] = @ \/ (Observed(h) /\ seen)]
               /\ UNCHANGED everFailed
               /\ attempt' = [attempt EXCEPT ![h] = @ + 1]
               /\ IF attempt[h] < maxAttempts
                    THEN /\ sleeps' = [sleeps EXCEPT ![h] = @ + 1]
                         /\ pc' = [pc EXCEPT ![h] = "sleep"]
                         /\ UNCHANGED fetches
                    ELSE /\ fetches' = [fetches EXCEPT ![h] = @ + 1]
                         /\ pc' = [pc EXCEPT ![h] = "final"]
                         /\ UNCHANGED sleeps
               /\ UNCHANGED <<request_id, submits, outcome, dispVars>>
  /\ UNCHANGED issued
  /\ UNCHANGED normVars

\* The GET of a loop attempt settles.
FetchSettles(h, raw) ==
  /\ pc[h] = "fetch"
  /\ LET r == get_session_results(request_id[h], raw, fetches[h])
         seen == ~r.threw /\ Len0(r.totalResults) > 0
     IN IF LoopDecision(r, attempt[h]) = "return"
          THEN PollEnd(h, Returned(r), seen, FALSE)
          ELSE /\ everResults' = [everResults EXCEPT ![h] = @ \/ (Observed(h) /\ seen)]
               /\ everFailed' = [everFailed EXCEPT ![h] = @ \/ (Observed(h) /\ r.threw)]
               /\ attempt' = [attempt EXCEPT ![h] = @ + 1]
               /\ IF attempt[h] < maxAttempts
                    THEN /\ sleeps' = [sleeps EXCEPT ![h] = @ + 1]
                         /\ pc' = [pc EXCEPT ![h] = "sleep"]
                         /\ UNCHANGED fetches
                    ELSE \* loop exhausted: the terminal get_session_results
                         /\ fetches' = [fetches EXCEPT ![h] = @ + 1]
                         /\ pc' = [pc EXCEPT ![h] = "final"]
                         /\ UNCHANGED sleeps
               /\ UNCHANGED <<request_id, submits, outcome, dispVars>>
  /\ UNCHANGED issued
  /\ UNCHANGED normVars

\* The terminal GET settles: its value is returned, its failure is thrown.
FinalSettles(h, raw) ==
  /\ pc[h] = "final"
  /\ LET r == get_session_results(request_id[h], raw, fetches[h])
     IN PollEnd(h, IF r.threw THEN Threw("Navifare API error") ELSE Returned(r),
                FALSE, FALSE)
  /\ UNCHANGED issued
  /\ UNCHANGED normVars

\* ---- app.post('/mcp') of http-server.js ----

\* The handler's first stretch: from the arrival of the request to the first
\* await or to the response. `step` is where the stretch ends:
\* "poll" (submit_and_poll_session called), "tool_submit", "tool_fetch",
\* "tools_list" (awaits), or "respond" with the envelope `env`.
HttpDispatch(r) ==
  LET reply(env) == [step |-> "respond", env |-> env]
      await(at) == [step |-> at, env |-> ErrorEnvelope(r.id, 0, 0, "")]
      thrown(msg) == reply(ErrorEnvelope(r.id, 500, InternalError, msg))
  IN
  IF r.method = "initialize" THEN reply(ResultEnvelope(r.id, Static("initialize")))
  ELSE IF r.method \in {"notifications/initialized", "initialized"}
    THEN reply(Envelope(r.id, 200, "empty", 0, "", Null))
  ELSE IF r.method = "tools/list" THEN await("tools_list")
  ELSE IF r.method = "resources/list"
    THEN reply(WithContents(ResultEnvelope(r.id, Static("resources")),
                            <<ResourceDescriptor>>))
  ELSE IF r.method = "resources/read"
    THEN IF ~r.hasParams THEN thrown("TypeError")
         ELSE IF r.uri = WidgetUri
           THEN reply(WithContents(
                        ResultEnvelope(r.id, WidgetToolOutput(lastFlightResults)),
                        <<ReadContent>>))
         ELSE reply(ErrorEnvelope(r.id, 404, InvalidParams, "Resource not found"))
  ELSE IF r.method = "tools/call"
    THEN IF ~r.hasParams THEN thrown("TypeError")
         ELSE IF r.tool = "search_flights"
           THEN IF ValidateSearch(r.args) # "ok"
                  THEN thrown(ValidateSearch(r.args))
                  ELSE await("poll")
         ELSE IF r.tool = "submit_session" THEN await("tool_submit")
         ELSE IF r.tool = "get_session_results"
           THEN IF ~r.args.present THEN thrown("TypeError")
                ELSE await("tool_fetch")
         ELSE reply(ErrorEnvelope(r.id, 400, MethodNotFound, "Unknown tool"))
  ELSE reply(ErrorEnvelope(r.id, 400, MethodNotFound, "Method not found"))

\* Handler h serves no request: it has not started, or its request is over,
\* answered or not.
Free(h) == pc[h] \in {"idle", "responded", "silent"}
FirstFree(h) ==
  Free(h) /\ \A g \in Handlers : HandlerOrder[g] < HandlerOrder[h] => ~Free(g)

\* The handler of POST /mcp runs on body r up to its first await.
HttpHandle(h, r) ==
  /\ FirstFree(h)
  /\ r.id = received + 1
  /\ received' = received + 1
  /\ req' = [req EXCEPT ![h] = r]
  /\ LET d == HttpDispatch(r)
     IN IF d.step = "respond"
          THEN /\ Activate(h, "responded", 0, 0)
               /\ out' = [out EXCEPT ![h] = <<d.env>>]
        ELSE IF d.step = "poll"
          THEN /\ PollStart(h)
               /\ out' = [out EXCEPT ![h] = <<>>]
        ELSE /\ Activate(h, d.step, IF d.step = "tool_submit" THEN 1 ELSE 0,
                                   IF d.step = "tool_fetch" THEN 1 ELSE 0)
             /\ out' = [out EXCEPT ![h] = <<>>]
  /\ UNCHANGED <<lastFlightResults, issued>>
  /\ UNCHANGED normVars

\* POST /mcp arrives with body r.
HttpReceive(h, r) == received < MaxRequests /\ HttpHandle(h, r)

\* tools/list: the awaited fetch of the server's own GET /mcp settles.
ToolsListSettles(h, ok) ==
  /\ pc[h] = "tools_list"
  /\ IF ok THEN Respond(h, ResultEnvelope(req[h].id, Static("tools")))
           ELSE HttpCatch(h, "fetch failed")
  /\ UNCHANGED <<issued, req, lastFlightResults, received>>
  /\ UNCHANGED normVars

\* tools/call submit_session: the awaited submit_session settles.
ToolSubmitSettles(h, reply) ==
  /\ pc[h] = "tool_submit"
  /\ issued' = IF reply = "created" THEN issued + 1 ELSE issued
  /\ HttpToolDone(h, IF reply = "http_error" THEN Threw("Navifare API error")
                     ELSE Returned([NoFetch EXCEPT
                            !.request_id = IF reply = "created" THEN issued + 1
                                           ELSE NoId,
                            !.status = "IN_PROGRESS"]))
  /\ UNCHANGED <<req, received>>
  /\ UNCHANGED normVars

\* tools/call get_session_results: the awaited get_session_results settles.
ToolFetchSettles(h, raw) ==
  /\ pc[h] = "tool_fetch"
  /\ LET r == get_session_results(req[h].args.request_id, raw, fetches[h])
     IN HttpToolDone(h, IF r.threw THEN Threw("Navifare API error")
                        ELSE Returned(r))
  /\ UNCHANGED <<issued, req, received>>
  /\ UNCHANGED normVars

\* ---- process.stdin.on('data') of stdio-server.js ----

\* The handler's first stretch, as HttpDispatch; "silent": the handler ends
\* without writing anything.
StdioDispatch(r) ==
  LET reply(env) == [step |-> "respond", env |-> env]
      end(at) == [step |-> at, env |-> ErrorEnvelope(r.id, 0, 0, "")]
  IN
  IF r.method = "<invalid json>" THEN end("silent")
  ELSE IF r.method = "initialize"
    THEN reply(ResultEnvelope(r.id, Static("initialize")))
  ELSE IF r.method = "tools/list" THEN reply(ResultEnvelope(r.id, Static("tools")))
  ELSE IF r.method = "tools/call"
    THEN IF ~r.hasParams THEN end("silent")
         ELSE IF r.tool = "format_flight_pricecheck_request"
           THEN IF ~r.args.present THEN end("silent") ELSE end("parse")
         ELSE IF r.tool = "flight_pricecheck"
           THEN IF ~r.args.present THEN end("silent") ELSE end("poll")
         ELSE reply(ResultEnvelope(r.id, Static("Tool called successfully")))
  ELSE end("silent")

\* A chunk arrives on stdin and is handled up to its first await.
StdioReceive(h, r) ==
  /\ FirstFree(h)
  /\ received < MaxRequests
  /\ r.id = received + 1
  /\ received' = received + 1
  /\ req' = [req EXCEPT ![h] = r]
  /\ LET d == StdioDispatch(r)
     IN IF d.step = "respond"
          THEN /\ Activate(h, "responded", 0, 0)
               /\ out' = [out EXCEPT ![h] = <<d.env>>]
        ELSE IF d.step = "poll"
          THEN /\ PollStart(h)
               /\ out' = [out EXCEPT ![h] = <<>>]
        ELSE /\ Activate(h, d.step, 0, 0)
             /\ out' = [out EXCEPT ![h] = <<>>]
  /\ UNCHANGED <<lastFlightResults, issued>>
  /\ UNCHANGED normVars

\* ---- parseFlightRequest ----

\* What the parsing collaborator (generateContent raced against the timeout)
\* gives back: a rejection, the timeout, or a text. A text is not JSON, the
\* JSON null, or an object: the needsMoreInfo signal with its message, or
\* flight data, nested (trip.legs[].segments[]) or flat. A segment is the set
\* of its fields that are truthy, `flat` the set of truthy top-level fields.
SegmentFields ==
  {"airline", "flightNumber", "departureAirport", "arrivalAirport",
   "departureDate", "departureTime", "arrivalTime"}
FlatFields ==
  {"departure", "arrival", "departureDate", "returnDate", "departureTime",
   "arrivalTime", "returnDepartureTime", "returnArrivalTime", "airline",
   "flightNumber"}
GeminiLeg(kind, segs) == [segmentsKind |-> kind, segments |-> segs]
GeminiReply(kind, signal, trip, legsKind, legs, adults, class, flat) ==
  [kind |-> kind, needsMoreInfo |-> signal, hasTrip |-> trip,
   legsKind |-> legsKind, legs |-> legs, adults |-> adults,
   hasTravelClass |-> class, flat |-> flat]
NoGeminiReply == GeminiReply("none", FALSE, FALSE, "absent", <<>>, 0, FALSE, {})

\* What parseFlightRequest resolves to.
Parsed(more, message, missing, withData) ==
  [needsMoreInfo |-> more, message |-> message, missingFields |-> missing,
   hasFlightData |-> withData]
ParseFallback ==
  Parsed(TRUE, "I encountered an error parsing your request",
         {<<f, 0, 0>> : f \in FlatFields}, FALSE)

\* The missing-field check of stdio-server.js on a parsed object: each entry
\* is what is missing, with its leg and segment where it has one.
MissingNested(g) ==
  IF ~g.hasTrip THEN {<<"trip information", 0, 0>>}
  ELSE (IF g.legsKind # "array" \/ Len(g.legs) = 0
          THEN {<<"flight legs", 0, 0>>}
        ELSE UNION {
               IF g.legs[l].segmentsKind # "array" \/ Len(g.legs[l].segments) = 0
                 THEN {<<"segments", l, 0>>}
               ELSE UNION {
                      {<<f, l, k>> : f \in SegmentFields \ g.legs[l].segments[k]}
                      : k \in 1..Len(g.legs[l].segments)}
               : l \in 1..Len(g.legs)})
       \cup (IF g.adults = 0 THEN {<<"number of adults", 0, 0>>} ELSE {})
       \cup (IF ~g.hasTravelClass THEN {<<"travel class", 0, 0>>} ELSE {})

\* The question asked for a list of missing fields.
Question(missing) ==
  IF Cardinality(missing) = 1 THEN "Could you please provide: one"
  ELSE IF Cardinality(missing) <= 3 THEN "Could you please provide: a, b and c"
  ELSE "Could you please provide more details about your flight?"

\* Variant of parseFlightRequest without the missing-field check.
parseFlightRequest_NoFieldCheck(g) ==
  IF g.kind \in {"rejects", "timeout", "not_json", "json_null"} THEN ParseFallback
  ELSE IF g.needsMoreInfo THEN Parsed(TRUE, "message of the reply", {}, FALSE)
  ELSE Parsed(FALSE, "", {}, TRUE)

\* parseFlightRequest of stdio-server.js for a reply of the collaborator:
\* everything that throws (a rejection, the timeout, JSON.parse, a property
\* of null) lands in the catch and becomes the fallback answer.
parseFlightRequest(g) ==
  IF g.kind \in {"rejects", "timeout", "not_json", "json_null"} THEN ParseFallback
  ELSE IF g.needsMoreInfo THEN Parsed(TRUE, "message of the reply", {}, FALSE)
  ELSE IF MissingNested(g) # {}
    THEN Parsed(TRUE, Question(MissingNested(g)), MissingNested(g), TRUE)
  ELSE Parsed(FALSE, "", {}, TRUE)

\* parseFlightRequest of the HTTP variant: its check reads the ten flat
\* fields of the parsed object, whatever its shape.
parseFlightRequestHttp(g) ==
  IF g.kind \in {"rejects", "timeout", "not_json", "json_null"} THEN ParseFallback
  ELSE IF FlatFields \ g.flat # {}
    THEN Parsed(TRUE, "I need more information to search for your flight",
                {<<f, 0, 0>> : f \in FlatFields \ g.flat}, TRUE)
  ELSE Parsed(FALSE, "", {}, TRUE)

\* handleStartFlightSearch of the HTTP variant, up to its last call: the
\* needsMoreInfo answer it returns, or submit_and_poll_session.
NotHandled == [step |-> "none", parsed |-> Parsed(FALSE, "", {}, FALSE)]
handleStartFlightSearch(g) ==
  LET parsedRequest == parseFlightRequestHttp(g)
  IN [step |-> IF parsedRequest.needsMoreInfo THEN "needsMoreInfo"
               ELSE "submit_and_poll_session",
      parsed |-> parsedRequest]

\* The replies of the collaborator.
GeminiSegments ==
  {SegmentFields, SegmentFields \ {"airline"}, SegmentFields \ {"arrivalTime"}}
GeminiLegs ==
  {GeminiLeg("absent", <<>>), GeminiLeg("array", <<>>)}
    \cup {GeminiLeg("array", <<sg>>) : sg \in GeminiSegments}
\* One leg or two, at most one of them short of a complete segment.
GeminiTrips ==
  LET full == GeminiLeg("array", <<SegmentFields>>)
  IN {<<>>} \cup {<<l>> : l \in GeminiLegs}
       \cup {<<full, l>> : l \in GeminiLegs} \cup {<<l, full>> : l \in GeminiLegs}
GeminiReplies ==
  {GeminiReply(k, FALSE, FALSE, "absent", <<>>, 0, FALSE, {}) :
     k \in {"rejects", "timeout", "not_json", "json_null"}}
    \cup {GeminiReply("json", TRUE, FALSE, "absent", <<>>, 0, FALSE, {})}
    \cup {GeminiReply("json", FALSE, FALSE, "absent", <<>>, 0, FALSE, flat) :
            flat \in {{}, FlatFields, FlatFields \ {"returnDate"}}}
    \cup {GeminiReply("json", FALSE, TRUE, lk, <<>>, a, c, {}) :
            lk \in {"absent", "not_array"}, a \in 0..1, c \in BOOLEAN}
    \cup {GeminiReply("json", FALSE, TRUE, "array", legs, a, c, {}) :
            legs \in GeminiTrips, a \in 0..1, c \in BOOLEAN}

\* format_flight_pricecheck_request: the awaited parseFlightRequest settles
\* for the collaborator's reply g (it never throws); with all fields present
\* the search starts.
StdioParseSettles(h, g) ==
  /\ pc[h] = "parse"
  /\ IF parseFlightRequest(g).needsMoreInfo
       THEN Respond(h, ResultEnvelope(req[h].id, Static("needsMoreInfo")))
       ELSE PollStart(h) /\ UNCHANGED out
  /\ UNCHANGED <<issued, req, lastFlightResults, received>>
  /\ UNCHANGED normVars

\* ---- argument normalisation ----

\* A JavaScript value in a time field: undefined, null, a number or a string
\* (its characters).
Undef == [type |-> "undefined", str |-> <<>>, num |-> 0]
JsNull == [type |-> "null", str |-> <<>>, num |-> 0]
Num(n) == [type |-> "number", str |-> <<>>, num |-> n]
Str(q) == [type |-> "string", str |-> q, num |-> 0]

\* !v
Falsy(v) ==
  \/ v.type \in {"undefined", "null"}
  \/ v.type = "number" /\ v.num = 0
  \/ v.type = "string" /\ v.str = <<>>

\* q.trim() === ''
IsBlank(q) == \A k \in 1..Len(q) : q[k] = " "

Midnight == Str(<<"0", "0", ":", "0", "0", ":", "0", "0">>)

\* Variant of NormalizeTime that leaves a five-character string as it is.
NormalizeTime_NoSuffix(v) ==
  IF v.type = "string"
    THEN IF Falsy(v) \/ IsBlank(v.str) THEN Midnight ELSE v
  ELSE IF Falsy(v) THEN Midnight ELSE v

\* The treatment of seg.departureTime and of seg.arrivalTime.
NormalizeTime(v) ==
  IF v.type = "string"
    THEN IF Len(v.str) = 5 THEN Str(v.str \o <<":", "0", "0">>)
         ELSE IF Falsy(v) \/ IsBlank(v.str) THEN Midnight
         ELSE v
  ELSE IF Falsy(v) THEN Midnight ELSE v

\* A JavaScript value in the source field: undefined, a number, or a string.
SrcUndef == [type |-> "undefined", text |-> ""]
SrcNum == [type |-> "number", text |-> ""]
SrcStr(t) == [type |-> "string", text |-> t]

validSources == {"MANUAL", "KAYAK", "GOOGLE_FLIGHTS", "BOOKING"}

SourceTexts ==
  validSources \cup {"", "kayak", "Booking", "MCP", "ChatGPT"}

\* String.prototype.toUpperCase on SourceTexts.
toUpperCase(t) ==
  CASE t = "kayak" -> "KAYAK"
    [] t = "Booking" -> "BOOKING"
    [] t = "ChatGPT" -> "CHATGPT"
    [] OTHER -> t

\* Variant of NormalizeSource that keeps a string it does not know.
NormalizeSource_KeepsUnknown(v) ==
  IF v.type = "string" /\ v.text # "" THEN v ELSE SrcStr("MANUAL")

\* The treatment of args.source.
NormalizeSource(v) ==
  IF v.type = "string" /\ v.text # ""
    THEN IF toUpperCase(v.text) \notin validSources THEN SrcStr("MANUAL") ELSE v
  ELSE SrcStr("MANUAL")

\* ---- strings as sequences of characters ----

UpperLetters ==
  <<"A", "B", "C", "D", "E", "F", "G", "H", "I", "J", "K", "L", "M", "N",
     "O", "P", "Q", "R", "S", "T", "U", "V", "W", "X", "Y", "Z">>
LowerLetters ==
  <<"a", "b", "c", "d", "e", "f", "g", "h", "i", "j", "k", "l", "m", "n",
     "o", "p", "q", "r", "s", "t", "u", "v", "w", "x", "y", "z">>
DecimalDigits == <<"0", "1", "2", "3", "4", "5", "6", "7", "8", "9">>
Range(f) == {f[k] : k \in DOMAIN f}

\* String.prototype.toUpperCase and toLowerCase, character by character.
UpperChar(c) ==
  IF c \in Range(LowerLetters)
    THEN UpperLetters[CHOOSE k \in DOMAIN LowerLetters : LowerLetters[k] = c]
  ELSE c
LowerChar(c) ==
  IF c \in Range(UpperLetters)
    THEN LowerLetters[CHOOSE k \in DOMAIN UpperLetters : UpperLetters[k] = c]
  ELSE c
toUpperCaseChars(q) == [k \in 1..Len(q) |-> UpperChar(q[k])]
toLowerCaseChars(q) == [k \in 1..Len(q) |-> LowerChar(q[k])]

\* String.prototype.trim for the space character.
trim(q) ==
  LET inked == {k \in 1..Len(q) : q[k] # " "}
  IN IF inked = {} THEN <<>>
     ELSE SubSeq(q, CHOOSE k \in inked : \A j \in inked : k <= j,
                    CHOOSE k \in inked : \A j \in inked : k >= j)

\* String.prototype.includes
includes(q, part) ==
  \E i \in 1..(Len(q) + 1) :
    i + Len(part) - 1 <= Len(q) /\ SubSeq(q, i, i + Len(part) - 1) = part

\* q.split('-'): the positions of the hyphens, and the second of exactly two
\* parts.
Hyphens(q) == {k \in 1..Len(q) : q[k] = "-"}
SecondOfTwoParts(q) ==
  LET h == CHOOSE k \in Hyphens(q) : TRUE IN SubSeq(q, h + 1, Len(q))

\* q.length === 2 && q.match(/^[A-Z]{2}$/i)
IsTwoLetters(q) ==
  Len(q) = 2 /\ \A k \in 1..2 : q[k] \in Range(UpperLetters) \cup Range(LowerLetters)

\* q.match(/\b([A-Z]{2})\b/): the positions where two capital letters stand
\* between word boundaries; match() returns the leftmost.
WordChars ==
  Range(UpperLetters) \cup Range(LowerLetters) \cup Range(DecimalDigits) \cup {"_"}
BareTokens(q) ==
  {i \in 1..(Len(q) - 1) :
     /\ q[i] \in Range(UpperLetters) /\ q[i + 1] \in Range(UpperLetters)
     /\ i = 1 \/ q[i - 1] \notin WordChars
     /\ i + 1 = Len(q) \/ q[i + 2] \notin WordChars}
FirstBareToken(q) ==
  LET i == CHOOSE k \in BareTokens(q) : \A j \in BareTokens(q) : k <= j
  IN SubSeq(q, i, i + 1)

\* ---- the location field ----

\* A JavaScript value in the location field: undefined (or the property
\* deleted), a number, a string (its characters), a function or an object.
LocAbsent == [type |-> "undefined", chars |-> <<>>]
LocNum == [type |-> "number", chars |-> <<>>]
LocStr(q) == [type |-> "string", chars |-> q]
LocFunction == [type |-> "function", chars |-> <<>>]
LocObject == [type |-> "object", chars |-> <<>>]

timezoneToCountry ==
  <<[name |-> <<"E", "u", "r", "o", "p", "e", "/", "R", "o", "m", "e">>,
     code |-> <<"I", "T">>],
    [name |-> <<"E", "u", "r", "o", "p", "e", "/", "M", "i", "l", "a", "n">>,
     code |-> <<"I", "T">>],
    [name |-> <<"E", "u", "r", "o", "p", "e", "/", "P", "a", "r", "i", "s">>,
     code |-> <<"F", "R">>],
    [name |-> <<"E", "u", "r", "o", "p", "e", "/", "L", "o", "n", "d", "o", "n">>,
     code |-> <<"G", "B">>],
    [name |-> <<"A", "m", "e", "r", "i", "c", "a", "/", "N", "e", "w", "_", "Y", "o", "r", "k">>,
     code |-> <<"U", "S">>],
    [name |-> <<"A", "m", "e", "r", "i", "c", "a", "/", "L", "o", "s", "_", "A", "n", "g", "e", "l", "e", "s">>,
     code |-> <<"U", "S">>]>>

\* Object.entries(cityCountryMapping), in insertion order.
cityCountryMapping ==
  <<[name |-> <<"i", "t", "a", "l", "y">>, code |-> <<"I", "T">>],
    [name |-> <<"i", "t", "a", "l", "i", "a">>, code |-> <<"I", "T">>],
    [name |-> <<"f", "r", "a", "n", "c", "e">>, code |-> <<"F", "R">>],
    [name |-> <<"f", "r", "a", "n", "c", "i", "a">>, code |-> <<"F", "R">>],
    [name |-> <<"u", "n", "i", "t", "e", "d", " ", "k", "i", "n", "g", "d", "o", "m">>, code |-> <<"G", "B">>],
    [name |-> <<"u", "k">>, code |-> <<"G", "B">>],
    [name |-> <<"e", "n", "g", "l", "a", "n", "d">>, code |-> <<"G", "B">>],
    [name |-> <<"u", "n", "i", "t", "e", "d", " ", "s", "t", "a", "t", "e", "s">>, code |-> <<"U", "S">>],
    [name |-> <<"u", "s", "a">>, code |-> <<"U", "S">>],
    [name |-> <<"a", "m", "e", "r", "i", "c", "a">>, code |-> <<"U", "S">>],
    [name |-> <<"s", "p", "a", "i", "n">>, code |-> <<"E", "S">>],
    [name |-> <<"e", "s", "p", "a", "n", "a">>, code |-> <<"E", "S">>],
    [name |-> <<"g", "e", "r", "m", "a", "n", "y">>, code |-> <<"D", "E">>],
    [name |-> <<"d", "e", "u", "t", "s", "c", "h", "l", "a", "n", "d">>, code |-> <<"D", "E">>],
    [name |-> <<"s", "w", "i", "t", "z", "e", "r", "l", "a", "n", "d">>, code |-> <<"C", "H">>],
    [name |-> <<"s", "v", "i", "z", "z", "e", "r", "a">>, code |-> <<"C", "H">>]>>

\* Names every object literal inherits from Object.prototype (some of them).
InheritedNames ==
  {<<"c", "o", "n", "s", "t", "r", "u", "c", "t", "o", "r">>,
   <<"t", "o", "S", "t", "r", "i", "n", "g">>,
   <<"v", "a", "l", "u", "e", "O", "f">>,
   <<"h", "a", "s", "O", "w", "n", "P", "r", "o", "p", "e", "r", "t", "y">>,
   <<"_", "_", "p", "r", "o", "t", "o", "_", "_">>}

\* key in timezoneToCountry: own and inherited properties alike.
InTimezoneTable(key) ==
  \/ \E k \in DOMAIN timezoneToCountry : timezoneToCountry[k].name = key
  \/ key \in InheritedNames

\* timezoneToCountry[key] for such a key: a code of the table, the prototype
\* object, or an inherited method.
TimezoneLookup(key) ==
  IF \E k \in DOMAIN timezoneToCountry : timezoneToCountry[k].name = key
    THEN LocStr((CHOOSE e \in Range(timezoneToCountry) : e.name = key).code)
  ELSE IF key = <<"_", "_", "p", "r", "o", "t", "o", "_", "_">> THEN LocObject
  ELSE LocFunction

\* The entries of cityCountryMapping whose name the lower-cased text contains;
\* the loop breaks at the first.
CountriesIn(lowerLoc) ==
  {k \in DOMAIN cityCountryMapping : includes(lowerLoc, cityCountryMapping[k].name)}
FirstCountryIn(lowerLoc) ==
  cityCountryMapping[CHOOSE k \in CountriesIn(lowerLoc) :
                       \A j \in CountriesIn(lowerLoc) : k <= j].code

\* The treatment of args.location.
NormalizeLocation(v) ==
  IF v.type = "string" /\ trim(v.chars) # <<>>
    THEN LET loc == trim(v.chars)
         IN IF InTimezoneTable(loc) THEN TimezoneLookup(loc)
            ELSE IF IsTwoLetters(loc) THEN LocStr(toUpperCaseChars(loc))
            ELSE IF /\ Cardinality(Hyphens(loc)) = 1
                    /\ IsTwoLetters(SecondOfTwoParts(loc))
              THEN LocStr(toUpperCaseChars(SecondOfTwoParts(loc)))
            ELSE IF CountriesIn(toLowerCaseChars(loc)) # {}
              THEN LocStr(FirstCountryIn(toLowerCaseChars(loc)))
            ELSE IF BareTokens(loc) # {} /\ FirstBareToken(loc) # <<"E", "U">>
              THEN LocStr(FirstBareToken(loc))
            ELSE LocAbsent
  ELSE LocAbsent

\* The location values the normalisation is run on.
LocationValues ==
  {LocAbsent, LocNum}
    \cup {LocStr(q) : q \in
          {<<"E", "u", "r", "o", "p", "e", "/", "R", "o", "m", "e">>,
           <<"a", "m", "e", "r", "i", "c", "a", "/", "n", "e", "w", "_", "y", "o", "r", "k">>,
           <<"i", "t">>,
           <<"C", "H">>,
           <<"E", "U", "-", "i", "t">>,
           <<"E", "U", "-", "R", "o", "m", "e">>,
           <<"a", "-", "b", "-", "U", "S">>,
           <<"M", "i", "l", "a", "n", ",", " ", "I", "t", "a", "l", "y">>,
           <<"R", "o", "m", "e", ",", " ", "I", "T">>,
           <<"E", "U", ",", " ", "I", "T">>,
           <<"U", "k", "r", "a", "i", "n", "e">>,
           <<"A", "t", "l", "a", "n", "t", "i", "s">>,
           <<" ", " ", "f", "r", " ">>,
           <<" ", " ", " ">>,
           <<>>,
           <<"c", "o", "n", "s", "t", "r", "u", "c", "t", "o", "r">>,
           <<"_", "_", "p", "r", "o", "t", "o", "_", "_">>,
           <<"1", "2">>,
           <<"U", "2">>}}


\* ---- the price field ----

\* A JavaScript value in the price field: undefined, a number (the characters
\* of String(price)) or a string.
PriceAbsent == [type |-> "undefined", chars |-> <<>>]
PriceNum(q) == [type |-> "number", chars |-> q]
PriceStr(q) == [type |-> "string", chars |-> q]

IsDigit(c) == c \in Range(DecimalDigits)
DigitValue(c) == (CHOOSE k \in DOMAIN DecimalDigits : DecimalDigits[k] = c) - 1

\* String(price).replace(/[^0-9.]/g, '')
DigitsAndDots(q) == SelectSeq(q, LAMBDA c : IsDigit(c) \/ c = ".")

\* The value of a sequence of digits, and the digits of a natural number.
RECURSIVE DigitsToNat(_)
DigitsToNat(q) ==
  IF q = <<>> THEN 0
  ELSE 10 * DigitsToNat(SubSeq(q, 1, Len(q) - 1)) + DigitValue(q[Len(q)])
RECURSIVE NatToDigits(_)
NatToDigits(n) ==
  IF n < 10 THEN <<DecimalDigits[n + 1]>>
  ELSE Append(NatToDigits(n \div 10), DecimalDigits[(n % 10) + 1])

\* Number(t) is NaN for a text of digits and dots: more than one dot, or a
\* dot alone. The empty text is 0.
Dots(t) == {k \in 1..Len(t) : t[k] = "."}
IsNaN(t) == Cardinality(Dots(t)) > 1 \/ t = <<".">>

\* Number(t).toFixed(2), computed in hundredths: the third decimal rounds,
\* and no value of PriceValues lies half way.
Hundredths(t) ==
  LET d == IF Dots(t) = {} THEN Len(t) + 1 ELSE CHOOSE k \in Dots(t) : TRUE
      whole == SubSeq(t, 1, d - 1)
      frac == SubSeq(t, d + 1, Len(t)) \o <<"0", "0", "0">>
  IN 100 * DigitsToNat(whole) + 10 * DigitValue(frac[1]) + DigitValue(frac[2])
       + (IF DigitValue(frac[3]) >= 5 THEN 1 ELSE 0)
toFixed2(t) ==
  LET h == Hundredths(t)
  IN NatToDigits(h \div 100)
       \o <<".", DecimalDigits[((h \div 10) % 10) + 1], DecimalDigits[(h % 10) + 1]>>

\* The treatment of args.price.
NormalizePrice(v) ==
  IF v.type \in {"string", "number"}
    THEN LET numeric == DigitsAndDots(v.chars)
         IN IF ~IsNaN(numeric) THEN PriceStr(toFixed2(numeric)) ELSE v
  ELSE v

\* The price values the normalisation is run on.
PriceChars == {"8", "0", ".", "a"}
PriceValues ==
  {PriceAbsent, PriceNum(<<"8">>), PriceNum(<<"8", ".", "8">>), PriceNum(<<"0">>)}
    \cup {PriceStr(q) : q \in SeqsUpTo(MaxPriceLen, PriceChars)}

\* Tool arguments: not an object, or an object with a source, and a trip
\* whose legs (when present) each have a segments array or none.
\* An entry of segments or of legs can be null instead of an object.
Segment(dep, arr) ==
  [departureTime |-> dep, arrivalTime |-> arr,
   flightNumber |-> Str(<<"1", "2", "3">>), plusDays |-> Num(0), isNull |-> FALSE]
NullSegment == [Segment(Undef, Undef) EXCEPT !.isNull = TRUE]
Leg(segs) == [hasSegments |-> TRUE, segments |-> segs, isNull |-> FALSE]
NoSegments == [Leg(<<>>) EXCEPT !.hasSegments = FALSE]
NullLeg == [NoSegments EXCEPT !.isNull = TRUE]

\* tripType and legsType tell what stands in args.trip and args.trip.legs:
\* nothing, the object or array expected, or a value of another type.
NoToolArgs == [isObject |-> FALSE, source |-> SrcUndef, hasLegs |-> FALSE,
               legs |-> <<>>, location |-> LocAbsent, price |-> PriceAbsent,
               tripType |-> "undefined", legsType |-> "undefined",
               travelClass |-> Undef, currency |-> Undef,
               infantsInSeat |-> Undef, infantsOnLap |-> Undef]
ToolArgs(src, legs) ==
  [NoToolArgs EXCEPT !.isObject = TRUE, !.source = src, !.hasLegs = TRUE,
                     !.legs = legs, !.tripType = "object", !.legsType = "array"]

\* The treatment of trip.travelClass, of currency, of the infant counts and
\* plusDays (numbers that arrive as JSON are finite), and of flightNumber.
NormalizeTravelClass(v) ==
  IF v.type = "string" THEN Str(toUpperCaseChars(v.str)) ELSE v
NormalizeCurrency(v) ==
  IF v.type = "string" THEN Str(toUpperCaseChars(trim(v.str))) ELSE v
NormalizeCount(v) == IF v.type = "number" THEN v ELSE Num(0)

\* q.match(/\d+/)[0]: the leftmost run of digits, as long as it goes.
DigitPositions(q) == {k \in 1..Len(q) : IsDigit(q[k])}
FirstDigitRun(q) ==
  LET from == CHOOSE k \in DigitPositions(q) : \A j \in DigitPositions(q) : k <= j
      upto == CHOOSE k \in from..Len(q) :
                /\ \A j \in from..k : IsDigit(q[j])
                /\ k = Len(q) \/ ~IsDigit(q[k + 1])
  IN SubSeq(q, from, upto)
NormalizeFlightNumber(v) ==
  IF v.type = "string" /\ DigitPositions(v.str) # {}
    THEN Str(FirstDigitRun(v.str))
  ELSE v

\* sanitizeSubmitArgs throws a TypeError: trip is a primitive (its legs
\* cannot be set), legs is not iterable, or an entry of legs or of segments is
\* null.
FirstNull(entries) ==
  IF \E k \in 1..Len(entries) : entries[k].isNull
    THEN CHOOSE k \in 1..Len(entries) :
           entries[k].isNull /\ \A j \in 1..(k - 1) : ~entries[j].isNull
  ELSE Len(entries) + 1
LegThrows(leg) ==
  leg.isNull \/ (leg.hasSegments /\ FirstNull(leg.segments) <= Len(leg.segments))
FirstThrowingLeg(legs) ==
  IF \E k \in 1..Len(legs) : LegThrows(legs[k])
    THEN CHOOSE k \in 1..Len(legs) :
           LegThrows(legs[k]) /\ \A j \in 1..(k - 1) : ~LegThrows(legs[j])
  ELSE Len(legs) + 1
SanitizeThrows(a) ==
  /\ a.isObject
  /\ \/ a.tripType = "string"
     \/ a.legsType = "number"
     \/ FirstThrowingLeg(a.legs) <= Len(a.legs)

NormalizeSegment(seg) ==
  [seg EXCEPT !.flightNumber = NormalizeFlightNumber(seg.flightNumber),
              !.plusDays = NormalizeCount(seg.plusDays),
              !.departureTime = NormalizeTime(seg.departureTime),
              !.arrivalTime = NormalizeTime(seg.arrivalTime)]

\* The segments of a leg are treated in order, up to a null entry.
NormalizeLeg(leg) ==
  IF leg.isNull \/ ~leg.hasSegments THEN leg
  ELSE [leg EXCEPT !.segments =
          [k \in 1..Len(leg.segments) |->
             IF k < FirstNull(leg.segments)
               THEN NormalizeSegment(leg.segments[k])
             ELSE leg.segments[k]]]

\* sanitizeSubmitArgs on the fields above: the object it returns, or the
\* object it was working on when it threw.
SanitizeFields(a) ==
  IF ~a.isObject \/ a.tripType = "string" THEN a
  ELSE LET b == [a EXCEPT !.tripType = "object",
                          !.hasLegs = TRUE,
                          !.legsType = IF a.hasLegs THEN a.legsType ELSE "array",
                          !.travelClass = NormalizeTravelClass(a.travelClass),
                          !.price = NormalizePrice(a.price),
                          !.currency = NormalizeCurrency(a.currency),
                          !.location = NormalizeLocation(a.location),
                          !.source = NormalizeSource(a.source),
                          !.infantsInSeat = NormalizeCount(a.infantsInSeat),
                          !.infantsOnLap = NormalizeCount(a.infantsOnLap)]
       IN IF a.legsType = "number" THEN b
          ELSE [b EXCEPT !.legs =
                  [k \in 1..Len(a.legs) |->
                     IF k <= FirstThrowingLeg(a.legs) THEN NormalizeLeg(a.legs[k])
                     ELSE a.legs[k]]]

\* The caller's object after the call: sanitizeSubmitArgs works on a shallow
\* copy, so the top-level fields stay, and a trip object the caller passed is
\* the one the function wrote to.
CallerAfter(a) ==
  IF ~a.isObject \/ a.tripType # "object" THEN a
  ELSE LET b == SanitizeFields(a)
       IN [a EXCEPT !.hasLegs = b.hasLegs, !.legsType = b.legsType,
                    !.legs = b.legs, !.travelClass = b.travelClass,
                    !.infantsInSeat = b.infantsInSeat,
                    !.infantsOnLap = b.infantsOnLap]

\* transformToApiFormat of stdio-server.js: arguments with trip.legs pass as
\* they are, others get two legs built from flat fields.
transformToApiFormat(flightData) ==
  IF flightData.hasLegs THEN flightData
  ELSE LET seg == [Segment(Undef, Undef) EXCEPT !.flightNumber = Undef]
       IN [flightData EXCEPT !.tripType = "object", !.legsType = "array",
                             !.hasLegs = TRUE,
                             !.legs = <<Leg(<<seg>>), Leg(<<seg>>)>>]

\* What each dispatcher passes to submit_and_poll_session for the tool
\* arguments a: the HTTP server, the stdio server (flight_pricecheck), the
\* McpServer registration.
HttpBody(a) == SanitizeFields(a)
StdioBody(a) ==
  transformToApiFormat([a EXCEPT !.isObject = TRUE, !.source = SrcStr("MCP")])
McpBody(a) == a

TimeChars == {"1", ":", " "}
TimeValues ==
  {Undef, JsNull, Num(0), Num(1300)}
    \cup {Str(q) : q \in SeqsUpTo(MaxTimeLen, TimeChars)}

GoodTime == Str(<<"1", "1", ":", "1", "1", ":", "1", "1">>)

\* Counts and flight numbers the normalisation is run on.
CountValues == {Undef, JsNull, Num(0), Num(1), Str(<<"1">>)}
FlightNumberValues ==
  {Undef, Num(1), Str(<<"A", "Z", "1", "2", "3">>), Str(<<"1", "2", "3">>), Str(<<"A", "Z">>), Str(<<"U", "2", " ", "8", "8">>)}

\* Arguments of another shape than the schema's: a trip without legs, a trip
\* that is a string, legs that is a number, null where a leg or a segment is
\* expected.
MalformedValues ==
  LET ok == ToolArgs(SrcStr("KAYAK"), <<>>)
      five == Str(<<"1", "1", ":", "1", "1">>)
  IN {[ok EXCEPT !.hasLegs = FALSE, !.legsType = "undefined",
                 !.travelClass = Str(<<"e", "c", "o", "n", "o", "m", "y">>)],
      [ok EXCEPT !.tripType = "string", !.hasLegs = FALSE,
                 !.legsType = "undefined"],
      [ok EXCEPT !.legsType = "number", !.travelClass = Str(<<"e", "c", "o", "n", "o", "m", "y">>)],
      [ok EXCEPT !.legs = <<Leg(<<Segment(five, five)>>), NullLeg,
                            Leg(<<Segment(five, five)>>)>>],
      [ok EXCEPT !.legs = <<Leg(<<Segment(five, five), NullSegment,
                                  Segment(five, five)>>)>>]}

\* The arguments the normalisation is run on: one field varies at a time.
ToolArgsValues ==
  {NoToolArgs, [NoToolArgs EXCEPT !.isObject = TRUE]}
    \cup {ToolArgs(src, <<Leg(<<Segment(GoodTime, GoodTime)>>), NoSegments>>) :
            src \in {SrcUndef, SrcNum} \cup {SrcStr(t) : t \in SourceTexts}}
    \cup {ToolArgs(SrcStr("KAYAK"), <<Leg(<<Segment(t, GoodTime)>>),
                                      Leg(<<Segment(GoodTime, t)>>)>>) :
            t \in TimeValues}
    \cup {[ToolArgs(SrcStr("KAYAK"), <<>>) EXCEPT !.location = v] :
            v \in LocationValues}
    \cup {[ToolArgs(SrcStr("KAYAK"), <<>>) EXCEPT !.price = v] :
            v \in PriceValues}
    \cup {[ToolArgs(SrcStr("KAYAK"), <<>>) EXCEPT !.travelClass = v] :
            v \in {Num(1), Str(<<"e", "c", "o", "n", "o", "m", "y">>), Str(<<"E", "C", "O", "N", "O", "M", "Y">>)}}
    \cup {[ToolArgs(SrcStr("KAYAK"), <<>>) EXCEPT !.currency = v] :
            v \in {Num(1), Str(<<" ", "e", "u", "r", " ">>), Str(<<"E", "U", "R">>), Str(<<"C", "h", "f">>)}}
    \cup {[ToolArgs(SrcStr("KAYAK"), <<>>) EXCEPT !.infantsInSeat = v,
                                                 !.infantsOnLap = w] :
            v \in CountValues, w \in CountValues}
    \cup {ToolArgs(SrcStr("KAYAK"),
                   <<Leg(<<[Segment(GoodTime, GoodTime) EXCEPT
                              !.flightNumber = v, !.plusDays = w]>>)>>) :
            v \in FlightNumberValues, w \in CountValues}
    \cup MalformedValues

NoSubmission == [by |-> "none", body |-> NoToolArgs, caller |-> NoToolArgs]

\* A dispatcher prepares the body for the tool arguments; caller is what has
\* become of the object it was called with.
Submits(by, body, caller) ==
  /\ submitted = NoSubmission
  /\ submitted' = [by |-> by, body |-> body, caller |-> caller]
  /\ UNCHANGED <<pollVars, issued, dispVars, toolArgs, formatVars, sideVars>>

\* A TypeError of sanitizeSubmitArgs reaches the catch of the dispatcher and
\* nothing is submitted.
HttpSubmits ==
  Submits(IF SanitizeThrows(toolArgs) THEN "caught" ELSE "http",
          HttpBody(toolArgs), CallerAfter(toolArgs))
StdioSubmits == Submits("stdio", StdioBody(toolArgs), toolArgs)
McpSubmits == Submits("mcp", McpBody(toolArgs), toolArgs)

\* ---- result formatting ----

\* The private_fare field of a raw result: absent, a boolean or a string.
PfAbsent == [type |-> "undefined", text |-> ""]
PfBool(t) == [type |-> "boolean", text |-> t]
PfStr(t) == [type |-> "string", text |-> t]

\* A raw result of the upstream (the fields the properties are about), and a
\* response body: its results are absent, an array, or something else.
RawResult(price, currency, pf) ==
  [price |-> price, currency |-> currency, private_fare |-> pf]
Data(status, kind, items) ==
  [request_id |-> 1, status |-> status, resultsKind |-> kind, results |-> items]
NoData == Data("UNKNOWN", "undefined", <<>>)

\* result.private_fare === 'true' ? 'Special Fare' : 'Standard Fare'
\* Variant of fareType for which the boolean true counts as well.
fareType_AnyTrue(pf) ==
  IF pf.text = "true" THEN "Special Fare" ELSE "Standard Fare"
fareType(pf) ==
  IF pf = PfStr("true") THEN "Special Fare" ELSE "Standard Fare"

\* The callback of data.results.map, with the index map passes to it.
\* Variant of FormatResult whose rank is the index itself.
FormatResult_RankIsIndex(result, index) ==
  [rank |-> index,
   price |-> <<result.price, " ", result.currency>>,
   fareType |-> fareType(result.private_fare)]
FormatResult(result, index) ==
  [rank |-> index + 1,
   price |-> <<result.price, " ", result.currency>>,
   fareType |-> fareType(result.private_fare)]

\* What get_session_results returns for a 2xx body: the formatted object when
\* data.results is an array, else the body itself.
NotFormatted ==
  [kind |-> "none", request_id |-> NoId, status |-> "UNKNOWN",
   totalResults |-> Absent, results |-> <<>>, rawData |-> NoData]
FormatData(d) ==
  IF d.resultsKind = "array"
    THEN [kind |-> "formatted",
          request_id |-> d.request_id,
          status |-> d.status,
          totalResults |-> Len(d.results),
          results |-> [k \in 1..Len(d.results) |-> FormatResult(d.results[k], k - 1)],
          rawData |-> d]
  ELSE [NotFormatted EXCEPT !.kind = "data", !.rawData = d]

\* The bodies the formatting is run on.
PrivateFareValues == {PfAbsent, PfBool("true"), PfStr("true"), PfStr("false")}
RawResults ==
  {RawResult(p, "EUR", pf) : p \in {"84", "99"}, pf \in PrivateFareValues}
DataValues ==
  {Data(st, "undefined", <<>>) : st \in Statuses}
    \cup {Data(st, "string", <<>>) : st \in Statuses}
    \cup {Data(st, "array", items) :
            st \in Statuses, items \in SeqsUpTo(MaxRawResults, RawResults)}

\* get_session_results returns for the body it received.
Formats ==
  /\ formatted = NotFormatted
  /\ formatted' = FormatData(jsonData)
  /\ UNCHANGED <<pollVars, issued, dispVars, toolArgs, submitted, jsonData,
                 sideVars>>

\* ---- generateTripSummary ----

\* A segment, a leg and a tool argument as generateTripSummary reads them. A
\* leg or a segment can be null; a leg can lack its segments.
SummarySegment(d) ==
  [isNull |-> FALSE, departureAirport |-> "MXP", arrivalAirport |-> "FCO",
   departureDate |-> d]
NullSummarySegment == [SummarySegment(JsNull) EXCEPT !.isNull = TRUE]
SummaryLeg(segs) == [isNull |-> FALSE, hasSegments |-> TRUE, segments |-> segs]
SummaryLegNoSegments == [SummaryLeg(<<>>) EXCEPT !.hasSegments = FALSE]
SummaryLegNull == [SummaryLegNoSegments EXCEPT !.isNull = TRUE]
FlightData(shape, legs, adults, children, inSeat, onLap, class) ==
  [shape |-> shape, legs |-> legs, adults |-> adults, children |-> children,
   infantsInSeat |-> inSeat, infantsOnLap |-> onLap, travelClass |-> class]
NoFlightData == FlightData("null", <<>>, 0, 0, 0, 0, Undef)

\* What generateTripSummary returns: null or a summary record.
NotSummarised ==
  [kind |-> "pending", route |-> <<>>, date |-> <<>>, passengers |-> <<>>,
   class |-> <<>>]
NullSummary == [NotSummarised EXCEPT !.kind = "null"]

\* new Date(v) for undefined, null and a string: a calendar day, or the
\* Invalid Date. A string is a day when it reads YYYY-MM-DD; a string
\* without a digit is the Invalid Date in every engine.
IsLeap(y) == (y % 4 = 0 /\ y % 100 # 0) \/ y % 400 = 0
DaysIn(m, y) ==
  IF m = 2 THEN (IF IsLeap(y) THEN 29 ELSE 28)
  ELSE IF m \in {4, 6, 9, 11} THEN 30 ELSE 31
InvalidDate == [nan |-> TRUE, year |-> 0, month |-> 0, day |-> 0]
Day(y, m, d) == [nan |-> FALSE, year |-> y, month |-> m, day |-> d]
NewDate(v) ==
  IF v.type = "null" THEN Day(1970, 1, 1)
  ELSE IF v.type # "string" THEN InvalidDate
  ELSE LET q == v.str
       IN IF /\ Len(q) = 10 /\ q[5] = "-" /\ q[8] = "-"
             /\ \A k \in {1, 2, 3, 4, 6, 7, 9, 10} : IsDigit(q[k])
            THEN LET y == DigitsToNat(SubSeq(q, 1, 4))
                     m == DigitsToNat(SubSeq(q, 6, 7))
                     d == DigitsToNat(SubSeq(q, 9, 10))
                 IN IF m \in 1..12 /\ d \in 1..DaysIn(m, y)
                      THEN Day(y, m, d) ELSE InvalidDate
          ELSE InvalidDate

\* The calendar day before a day.
DayBefore(t) ==
  IF t.day > 1 THEN Day(t.year, t.month, t.day - 1)
  ELSE IF t.month > 1
    THEN Day(t.year, t.month - 1, DaysIn(t.month - 1, t.year))
  ELSE Day(t.year - 1, 12, 31)

\* The weekday of a day, 1 for Saturday.
WeekdayOf(t) ==
  LET m == IF t.month < 3 THEN t.month + 12 ELSE t.month
      y == IF t.month < 3 THEN t.year - 1 ELSE t.year
  IN ((t.day + ((13 * (m + 1)) \div 5) + (y % 100) + ((y % 100) \div 4)
        + ((y \div 100) \div 4) + 5 * (y \div 100)) % 7) + 1
WeekdayNames == <<"Sat", "Sun", "Mon", "Tue", "Wed", "Thu", "Fri">>
MonthNames ==
  <<"Jan", "Feb", "Mar", "Apr", "May", "Jun", "Jul", "Aug", "Sep", "Oct",
     "Nov", "Dec">>

\* date.toLocaleDateString('en-US', {weekday, month, day}): the words
\* "Invalid Date" for the Invalid Date (no exception), else the day in the
\* host's time zone. A date-only string is midnight UTC, so a host west of
\* UTC shows the day before.
toLocaleDateString(t, west) ==
  IF t.nan THEN <<"Invalid Date">>
  ELSE LET shown == IF west THEN DayBefore(t) ELSE t
       IN <<WeekdayNames[WeekdayOf(shown)], MonthNames[shown.month], shown.day>>

\* The passenger string, as its parts: `${n} adult${n !== 1 ? 's' : ''}` and
\* so on, or '1 passenger' when it is empty.
Passengers(adults, children, infants) ==
  LET a == IF adults > 0
             THEN <<<<adults, IF adults # 1 THEN "adults" ELSE "adult">>>>
             ELSE <<>>
      c == IF children > 0
             THEN <<<<children, IF children # 1 THEN "children" ELSE "child">>>>
             ELSE <<>>
      i == IF infants > 0
             THEN <<<<infants, IF infants # 1 THEN "infants" ELSE "infant">>>>
             ELSE <<>>
  IN IF a \o c \o i = <<>> THEN <<<<1, "passenger">>>> ELSE a \o c \o i

\* String.prototype.replace('_', ' '): the first underscore only.
ReplaceFirstUnderscore(q) ==
  IF \E k \in 1..Len(q) : q[k] = "_"
    THEN LET k == CHOOSE j \in 1..Len(q) :
                    q[j] = "_" /\ \A l \in 1..(j - 1) : q[l] # "_"
         IN [q EXCEPT ![k] = " "]
  ELSE q

\* travelClass?.toLowerCase().replace('_', ' ') || 'economy', capitalised.
CapitalizedClass(v) ==
  LET lowered == IF v.type = "string"
                   THEN ReplaceFirstUnderscore(toLowerCaseChars(v.str))
                   ELSE <<>>
      travelClass == IF lowered = <<>>
                       THEN <<"e", "c", "o", "n", "o", "m", "y">> ELSE lowered
  IN <<UpperChar(travelClass[1])>> \o SubSeq(travelClass, 2, Len(travelClass))

\* generateTripSummary(flightData) in full, on a host west of UTC or not: the
\* record it returns, with its date and passengers. A TypeError inside the try block (a null leg or segment, a travelClass that is a
\* number) is caught and gives null.
generateTripSummaryRecord(fd, west) ==
  IF fd.shape # "legs" \/ Len(fd.legs) = 0 THEN NullSummary
  ELSE
    LET firstLeg == fd.legs[1]
        lastLeg == fd.legs[Len(fd.legs)]
    IN
    IF firstLeg.isNull THEN NullSummary
    ELSE IF ~firstLeg.hasSegments THEN NullSummary
    ELSE IF lastLeg.isNull THEN NullSummary
    ELSE IF ~lastLeg.hasSegments \/ Len(firstLeg.segments) = 0
            \/ Len(lastLeg.segments) = 0 THEN NullSummary
    ELSE
      LET firstSegment == firstLeg.segments[1]
          lastSegment == lastLeg.segments[Len(lastLeg.segments)]
      IN
      IF firstSegment.isNull \/ lastSegment.isNull THEN NullSummary
      ELSE IF fd.travelClass.type = "number" THEN NullSummary
      ELSE [kind |-> "summary",
            route |-> <<firstSegment.departureAirport,
                        IF Len(fd.legs) = 1 THEN "one-way" ELSE "return",
                        lastSegment.arrivalAirport>>,
            date |-> toLocaleDateString(NewDate(firstSegment.departureDate),
                                        west),
            passengers |-> Passengers(fd.adults, fd.children,
                                      fd.infantsInSeat + fd.infantsOnLap),
            class |-> CapitalizedClass(fd.travelClass)]

\* The arguments the summary is generated for.
DateValues ==
  {Undef, Str(<<>>),
   Str(<<"t", "o", "m", "o", "r", "r", "o", "w">>),
   Str(<<"2", "0", "2", "5", "-", "0", "6", "-", "1", "5">>),
   Str(<<"2", "0", "2", "5", "-", "0", "3", "-", "0", "1">>)}
SummaryLegs ==
  {SummaryLegNull, SummaryLegNoSegments, SummaryLeg(<<>>),
   SummaryLeg(<<NullSummarySegment>>)}
    \cup {SummaryLeg(<<SummarySegment(d)>>) : d \in DateValues}
ClassValues ==
  {Undef, Num(1), Str(<<>>),
   Str(<<"P", "R", "E", "M", "I", "U", "M", "_", "E", "C", "O", "N", "O",
         "M", "Y">>)}
FlightDataValues ==
  {FlightData(shape, <<>>, 0, 0, 0, 0, Undef) :
     shape \in {"null", "no_trip", "no_legs"}}
    \cup {FlightData("legs", legs, a, c, 0, i, class) :
            legs \in SeqsUpTo(MaxLegs, SummaryLegs), a \in 0..2, c \in 0..1,
            i \in 0..1, class \in ClassValues}

\* generateTripSummary returns for the arguments it was called with.
Summarises ==
  /\ tripSummary = NotSummarised
  /\ \E west \in BOOLEAN : tripSummary' =
                              generateTripSummaryRecord(cleanedArgs, west)
  /\ UNCHANGED <<pollVars, issued, dispVars, toolArgs, submitted, formatVars,
                 cleanedArgs, parseVars, widgetVars>>

\* handleStartFlightSearch of the HTTP variant runs on the reply.
HttpVariantHandles ==
  /\ handled = NotHandled
  /\ handled' = handleStartFlightSearch(geminiReply)
  /\ UNCHANGED <<pollVars, issued, dispVars, toolArgs, submitted, formatVars,
                 summaryVars, geminiReply, widgetVars>>

\* ---- FlightResultsApp: the auto-refresh of the results widget ----

\* window.openai.toolOutput as the widget reads it, and the dependency array
\* of the auto-refresh effect: toolOutput?.status, toolOutput?.totalResults
\* and refreshResults, which changes with toolOutput?.request_id.
ToolOutput(id, st, n) == [request_id |-> id, status |-> st, totalResults |-> n]
NoDeps == <<"unmounted", Absent, NoId>>
Deps(o) == <<o.status, o.totalResults, o.request_id>>

\* A render commits with changed dependencies (the first render included):
\* the previous effect's cleanup clears its timeout, then the effect sets a
\* new one if the status is IN_PROGRESS.
Renders ==
  /\ effectDeps # Deps(toolOutput)
  /\ effectDeps' = Deps(toolOutput)
  /\ timer' = (toolOutput.status = "IN_PROGRESS")
  /\ UNCHANGED <<toolOutput, calling, refreshes>>
  /\ UNCHANGED <<pollVars, issued, dispVars, toolArgs, submitted, formatVars,
                 summaryVars, parseVars>>

\* refreshResults: the tool is called if toolOutput has a request_id.
RefreshResults ==
  IF toolOutput.request_id # NoId
    THEN calling' = TRUE /\ refreshes' = refreshes + 1
    ELSE UNCHANGED <<calling, refreshes>>

\* The timeout fires after 5000 ms and runs refreshResults.
TimerFires ==
  /\ timer /\ refreshes < MaxRefreshes
  /\ timer' = FALSE
  /\ RefreshResults
  /\ UNCHANGED <<toolOutput, effectDeps>>
  /\ UNCHANGED <<pollVars, issued, dispVars, toolArgs, submitted, formatVars,
                 summaryVars, parseVars>>

\* The Refresh button, disabled while the status is IN_PROGRESS.
ClicksRefresh ==
  /\ effectDeps # NoDeps /\ toolOutput.status # "IN_PROGRESS"
  /\ ~calling /\ refreshes < MaxRefreshes
  /\ RefreshResults
  /\ UNCHANGED <<toolOutput, effectDeps, timer>>
  /\ UNCHANGED <<pollVars, issued, dispVars, toolArgs, submitted, formatVars,
                 summaryVars, parseVars>>

\* The call resolves (its value is dropped); the host may put the response
\* in toolOutput, which re-renders the widget.
ToolResponds(st, n, updates) ==
  /\ calling
  /\ calling' = FALSE
  /\ toolOutput' = IF updates THEN ToolOutput(toolOutput.request_id, st, n)
                   ELSE toolOutput
  /\ UNCHANGED <<effectDeps, timer, refreshes>>
  /\ UNCHANGED <<pollVars, issued, dispVars, toolArgs, submitted, formatVars,
                 summaryVars, parseVars>>

\* ---- the orchestrator called directly ----

Invoke(h) ==
  /\ pc[h] = "idle"
  /\ PollStart(h)
  /\ req' = [req EXCEPT ![h] = [NoRequest EXCEPT !.transport = "direct"]]
  /\ UNCHANGED <<issued, out, lastFlightResults, received>>
  /\ UNCHANGED normVars

BaseInit ==
  /\ pc = [h \in Handlers |-> "idle"]
  /\ request_id = [h \in Handlers |-> NoId]
  /\ attempt = [h \in Handlers |-> 0]
  /\ submits = [h \in Handlers |-> 0]
  /\ sleeps = [h \in Handlers |-> 0]
  /\ fetches = [h \in Handlers |-> 0]
  /\ everResults = [h \in Handlers |-> FALSE]
  /\ everFailed = [h \in Handlers |-> FALSE]
  /\ outcome = [h \in Handlers |-> NoOutcome]
  /\ issued = 0
  /\ req = [h \in Handlers |-> NoRequest]
  /\ out = [h \in Handlers |-> <<>>]
  /\ lastFlightResults = Undefined
  /\ received = 0

SummaryIdle == cleanedArgs = NoFlightData /\ tripSummary = NotSummarised
ParseIdle == geminiReply = NoGeminiReply /\ handled = NotHandled
WidgetIdle ==
  /\ toolOutput = ToolOutput(NoId, "UNKNOWN", 0) /\ effectDeps = NoDeps
  /\ timer = FALSE /\ calling = FALSE /\ refreshes = 0
SideIdle == SummaryIdle /\ ParseIdle /\ WidgetIdle

PollInit ==
  /\ BaseInit /\ toolArgs = NoToolArgs /\ submitted = NoSubmission
  /\ jsonData = NoData /\ formatted = NotFormatted /\ SideIdle

NormInit ==
  /\ BaseInit /\ toolArgs \in ToolArgsValues /\ submitted = NoSubmission
  /\ jsonData = NoData /\ formatted = NotFormatted /\ SideIdle

FormatInit ==
  /\ BaseInit /\ toolArgs = NoToolArgs /\ submitted = NoSubmission
  /\ jsonData \in DataValues /\ formatted = NotFormatted /\ SideIdle

SummaryInit ==
  /\ BaseInit /\ toolArgs = NoToolArgs /\ submitted = NoSubmission
  /\ jsonData = NoData /\ formatted = NotFormatted
  /\ cleanedArgs \in FlightDataValues /\ tripSummary = NotSummarised
  /\ ParseIdle /\ WidgetIdle

SummaryNext == Summarises

SummarySpec == SummaryInit /\ [][SummaryNext]_vars

ParseInit ==
  /\ BaseInit /\ toolArgs = NoToolArgs /\ submitted = NoSubmission
  /\ jsonData = NoData /\ formatted = NotFormatted /\ SummaryIdle
  /\ geminiReply \in GeminiReplies /\ handled = NotHandled /\ WidgetIdle

ParseNext == HttpVariantHandles

ParseSpec == ParseInit /\ [][ParseNext]_vars

\* The widget is loaded with the output of a search: the session's id, its
\* status and the number of results so far.
WidgetInit ==
  /\ BaseInit /\ toolArgs = NoToolArgs /\ submitted = NoSubmission
  /\ jsonData = NoData /\ formatted = NotFormatted /\ SummaryIdle /\ ParseIdle
  /\ toolOutput \in {ToolOutput(id, st, n) :
                        id \in {NoId, 1}, st \in Statuses, n \in 0..MaxResults}
  /\ effectDeps = NoDeps /\ timer = FALSE /\ calling = FALSE /\ refreshes = 0

WidgetNext ==
  \/ Renders
  \/ TimerFires
  \/ ClicksRefresh
  \/ \E st \in Statuses, n \in 0..MaxResults, updates \in BOOLEAN :
       ToolResponds(st, n, updates)

WidgetSpec == WidgetInit /\ [][WidgetNext]_vars

FormatNext == Formats

FormatSpec == FormatInit /\ [][FormatNext]_vars

NormNext == HttpSubmits \/ StdioSubmits \/ McpSubmits

NormSpec == NormInit /\ [][NormNext]_vars

PollNext ==
  \/ \E h \in Handlers : Invoke(h)
  \/ \E h \in Handlers, reply \in SubmitReplies : SubmitSettles(h, reply)
  \/ \E h \in Handlers : SleepEnds(h)
  \/ \E h \in Handlers, raw \in FetchReplies : FetchSettles(h, raw)
  \/ \E h \in Handlers, raw \in FetchReplies : FinalSettles(h, raw)

PollSpec == PollInit /\ [][PollNext]_vars

\* The continuations of the invocation of handler h, and the orchestrator
\* when every POST, GET and sleep it awaits settles.
PollStep(h) ==
  \/ \E reply \in SubmitReplies : SubmitSettles(h, reply)
  \/ SleepEnds(h)
  \/ \E raw \in FetchReplies : FetchSettles(h, raw)
  \/ \E raw \in FetchReplies : FinalSettles(h, raw)

FairPollSpec == PollSpec /\ \A h \in Handlers : WF_vars(PollStep(h))

\* ---- properties of submit_and_poll_session (PollSpec) ----

\* A resolved invocation does nothing more.
Resolved(h) ==
  pc[h] = "done" =>
    /\ pc'[h] = "done" /\ outcome'[h] = outcome[h]
    /\ submits'[h] = submits[h] /\ sleeps'[h] = sleeps[h]
    /\ fetches'[h] = fetches[h]

\* The first nine loop attempts, or all before the current one, returned an
\* empty list with a status other than COMPLETED.
AllEmptySoFar(h) == ~everResults[h] /\ ~everFailed[h]

\* C1: when the GET of loop attempt k is the one that returns status
\* COMPLETED, the invocation resolves in that step with the k-th snapshot,
\* with or without results, after exactly k fetches and k sleeps, and does
\* nothing afterwards.
C1_CompletedReturnsAtOnce ==
  [][\A h \in Handlers :
       /\ \A raw \in FetchReplies :
            (FetchSettles(h, raw) /\ raw.ok /\ raw.status = "COMPLETED")
              => /\ pc'[h] = "done"
                 /\ outcome'[h] =
                      Returned(get_session_results(request_id[h], raw, attempt[h]))
                 /\ fetches'[h] = attempt[h]
                 /\ sleeps'[h] = attempt[h]
       /\ Resolved(h)]_vars

C1_Witness ==
  \E h \in Handlers :
    /\ pc[h] = "done" /\ outcome[h].kind = "returned"
    /\ outcome[h].value.status = "COMPLETED"
    /\ outcome[h].value.totalResults = 0
    /\ outcome[h].value.seq = 3 /\ fetches[h] = 3
    /\ everFailed[h] /\ everResults[h]

\* C2: when the GET of attempt 10 returns a non-empty list (and no attempt
\* returned COMPLETED before, or the loop would be over), the invocation
\* resolves with exactly that snapshot after 10 fetches, and no 11th fetch
\* follows.
C2_LastAttemptPartial ==
  [][\A h \in Handlers :
       /\ \A raw \in FetchReplies :
            (FetchSettles(h, raw) /\ attempt[h] = maxAttempts
               /\ raw.ok /\ Len0(raw.results) > 0)
              => /\ pc'[h] = "done"
                 /\ outcome'[h] =
                      Returned(get_session_results(request_id[h], raw, maxAttempts))
                 /\ fetches'[h] = maxAttempts
                 /\ sleeps'[h] = maxAttempts
       /\ Resolved(h)]_vars

C2_Witness ==
  \E h \in Handlers :
    /\ pc[h] = "done" /\ outcome[h].kind = "returned"
    /\ outcome[h].value.status # "COMPLETED"
    /\ outcome[h].value.totalResults > 0
    /\ outcome[h].value.seq = maxAttempts /\ fetches[h] = maxAttempts
    /\ everFailed[h]

\* C3: when all ten loop GETs return an empty list with a status other than
\* COMPLETED, the tenth is followed by one terminal GET (the 11th fetch, no
\* 11th sleep), and the invocation returns what that GET returns.
C3_EmptyThenTerminalFetch ==
  [][\A h \in Handlers :
       /\ \A raw \in FetchReplies :
            (FetchSettles(h, raw) /\ attempt[h] = maxAttempts /\ AllEmptySoFar(h)
               /\ raw.ok /\ raw.status # "COMPLETED" /\ Len0(raw.results) = 0)
              => /\ pc'[h] = "final"
                 /\ fetches'[h] = maxAttempts + 1
                 /\ sleeps'[h] = maxAttempts
                 /\ outcome'[h] = NoOutcome
       /\ \A raw \in FetchReplies :
            (FinalSettles(h, raw) /\ raw.ok)
              => /\ pc'[h] = "done"
                 /\ outcome'[h] =
                      Returned(get_session_results(request_id[h], raw, maxAttempts + 1))
                 /\ fetches'[h] = maxAttempts + 1
                 /\ sleeps'[h] = maxAttempts
       /\ Resolved(h)]_vars

C3_Witness ==
  \E h \in Handlers :
    /\ pc[h] = "done" /\ AllEmptySoFar(h) /\ fetches[h] = maxAttempts + 1
    /\ outcome[h].kind = "returned"
    /\ outcome[h].value.seq = maxAttempts + 1
    /\ outcome[h].value.status = "UNKNOWN"
    /\ outcome[h].value.totalResults = 1

\* C4: when submit_session fails or its response has no request_id, the
\* invocation ends with an error in that step, having slept and fetched
\* nothing; polling happens only with a request_id.
C4_SubmitFailureFailsFast ==
  /\ [][\A h \in Handlers :
          /\ \A reply \in {"http_error", "no_request_id"} :
               SubmitSettles(h, reply)
                 => /\ pc'[h] = "done" /\ outcome'[h].kind = "threw"
                    /\ sleeps'[h] = 0 /\ fetches'[h] = 0
          /\ Resolved(h)]_vars
  /\ [](\A h \in Handlers :
          (sleeps[h] > 0 \/ fetches[h] > 0) => request_id[h] # NoId)

C4_Witness ==
  \E h \in Handlers :
    /\ pc[h] = "done" /\ outcome[h].kind = "threw"
    /\ outcome[h].error = "No request_id returned from submit_session"
    /\ submits[h] = 1 /\ sleeps[h] = 0 /\ fetches[h] = 0

\* C5: a loop GET that fails leaves the invocation running (next sleep, or
\* the terminal GET after attempt 10); an invocation ends with an error only
\* when the submission gave no request_id or the terminal GET failed.
C5_PollFailuresAbsorbed ==
  /\ [][\A h \in Handlers : \A raw \in FetchReplies :
          (FetchSettles(h, raw) /\ ~raw.ok)
            => /\ pc'[h] = IF attempt[h] < maxAttempts THEN "sleep" ELSE "final"
               /\ outcome'[h] = NoOutcome]_vars
  /\ [](\A h \in Handlers :
          outcome[h].kind = "threw"
            => \/ request_id[h] = NoId /\ fetches[h] = 0
               \/ attempt[h] = maxAttempts + 1 /\ fetches[h] = maxAttempts + 1)

C5_Witness ==
  \E h \in Handlers :
    /\ pc[h] = "done" /\ everFailed[h] /\ ~everResults[h]
    /\ outcome[h].kind = "returned" /\ outcome[h].value.seq = maxAttempts + 1

C31_StatusDoesNotSteer ==
  [][\A h \in Handlers : \A raw \in FetchReplies :
       (FetchSettles(h, raw) /\ raw.ok /\ raw.status # "COMPLETED")
         => /\ pc'[h] = IF attempt[h] < maxAttempts THEN "sleep"
                        ELSE IF Len0(raw.results) > 0 THEN "done" ELSE "final"
            /\ pc'[h] = "done"
                 => /\ outcome'[h].kind = "returned"
                    /\ outcome'[h].value.status = raw.status
                    /\ outcome'[h].value.totalResults = raw.results
                    /\ fetches'[h] = maxAttempts]_vars

C31_Witness ==
  \E h \in Handlers :
    /\ pc[h] = "done" /\ outcome[h].kind = "returned"
    /\ outcome[h].value.status = "UNKNOWN"
    /\ outcome[h].value.totalResults > 0
    /\ fetches[h] = maxAttempts /\ sleeps[h] = maxAttempts

\* C32: an invocation calls submit_session once; it starts at most 10 sleeps
\* and issues at most 11 GETs; every GET of the loop follows a sleep of its
\* own, so the GETs never outnumber the sleeps before the terminal GET, which
\* is the only one without a sleep and comes after the tenth.
C32_ResourceBound ==
  \A h \in Handlers :
    /\ pc[h] # "idle" => submits[h] = 1
    /\ sleeps[h] <= maxAttempts /\ fetches[h] <= maxAttempts + 1
    /\ fetches[h] <= sleeps[h] + 1
    /\ fetches[h] = sleeps[h] + 1 => sleeps[h] = maxAttempts
    /\ pc[h] = "submit" => sleeps[h] = 0 /\ fetches[h] = 0
    /\ pc[h] = "sleep" => sleeps[h] = fetches[h] + 1
    /\ pc[h] = "fetch" => fetches[h] = sleeps[h]
    /\ pc[h] = "final" => fetches[h] = maxAttempts + 1

C32_Witness ==
  \E h \in Handlers :
    /\ pc[h] = "done" /\ outcome[h].kind = "threw"
    /\ submits[h] = 1 /\ sleeps[h] = maxAttempts /\ fetches[h] = maxAttempts + 1

C34_OwnSessionOnly ==
  /\ [](\A h \in Handlers :
          /\ pc[h] \in {"sleep", "fetch", "final"}
               => /\ request_id[h] \in 1..issued
                  /\ \A g \in Handlers \ {h} : request_id[g] # request_id[h]
          /\ (pc[h] = "done" /\ outcome[h].kind = "returned")
               => /\ outcome[h].value.request_id = request_id[h]
                  /\ request_id[h] \in 1..issued
                  /\ \A g \in Handlers \ {h} : request_id[g] # request_id[h])
  /\ [][\A h \in Handlers :
          request_id'[h] # request_id[h]
            => /\ SubmitSettles(h, "created")
               /\ issued' = issued + 1
               /\ request_id'[h] = issued']_vars

C34_Witness ==
  \E h \in Handlers : \E g \in Handlers \ {h} :
    /\ pc[h] = "done" /\ outcome[h].kind = "returned"
    /\ pc[g] = "done" /\ outcome[g].kind = "returned"
    /\ outcome[h].value.request_id = 2 /\ outcome[g].value.request_id = 1
    /\ outcome[h].value.seq < outcome[g].value.seq

\* ---- the HTTP server ----

Init == PollInit

Next ==
  \/ \E h \in Handlers : \E r \in HttpRequests(received + 1) : HttpReceive(h, r)
  \/ \E h \in Handlers, reply \in SubmitReplies : SubmitSettles(h, reply)
  \/ \E h \in Handlers : SleepEnds(h)
  \/ \E h \in Handlers, raw \in DocumentedReplies : FetchSettles(h, raw)
  \/ \E h \in Handlers, raw \in DocumentedReplies : FinalSettles(h, raw)
  \/ \E h \in Handlers, ok \in BOOLEAN : ToolsListSettles(h, ok)
  \/ \E h \in Handlers, reply \in SubmitReplies : ToolSubmitSettles(h, reply)
  \/ \E h \in Handlers, raw \in DocumentedReplies : ToolFetchSettles(h, raw)

Spec == Init /\ [][Next]_vars

\* The continuations of handler h: each runs once the promise or timer it
\* awaits has settled.
HandlerStep(h) ==
  \/ \E reply \in SubmitReplies : SubmitSettles(h, reply)
  \/ SleepEnds(h)
  \/ \E raw \in DocumentedReplies : FetchSettles(h, raw)
  \/ \E raw \in DocumentedReplies : FinalSettles(h, raw)
  \/ \E ok \in BOOLEAN : ToolsListSettles(h, ok)
  \/ \E reply \in SubmitReplies : ToolSubmitSettles(h, reply)
  \/ \E raw \in DocumentedReplies : ToolFetchSettles(h, raw)

\* The event loop resumes every handler whose awaited call has settled, and
\* every upstream call and timer settles.
FairSpec == Spec /\ \A h \in Handlers : WF_vars(HandlerStep(h))

\* ---- two searches and the widget ----

\* Round-trip searches and reads of the widget, one request more than
\* MaxRequests: two searches can be followed by a read.
RaceRequests(i) ==
  {Request("http", i, "resources/read", TRUE, WidgetUri, "", NoArgs),
   Request("http", i, "tools/call", TRUE, "", "search_flights",
           [present |-> TRUE, hasLegs |-> TRUE, legs |-> <<TRUE, TRUE>>,
            request_id |-> NoId])}

RaceReceive(h, r) == received < MaxRequests + 1 /\ HttpHandle(h, r)

RaceNext ==
  \/ \E h \in Handlers : \E r \in RaceRequests(received + 1) : RaceReceive(h, r)
  \/ \E h \in Handlers, reply \in SubmitReplies : SubmitSettles(h, reply)
  \/ \E h \in Handlers : SleepEnds(h)
  \/ \E h \in Handlers, raw \in DocumentedReplies : FetchSettles(h, raw)
  \/ \E h \in Handlers, raw \in DocumentedReplies : FinalSettles(h, raw)

RaceSpec == Init /\ [][RaceNext]_vars

\* ---- both dispatchers ----

ServersNext ==
  \/ \E h \in Handlers : \E r \in HttpRequests(received + 1) : HttpReceive(h, r)
  \/ \E h \in Handlers : \E r \in StdioRequests(received + 1) : StdioReceive(h, r)
  \/ \E h \in Handlers, g \in GeminiReplies : StdioParseSettles(h, g)
  \/ \E h \in Handlers, reply \in SubmitReplies : SubmitSettles(h, reply)
  \/ \E h \in Handlers : SleepEnds(h)
  \/ \E h \in Handlers, raw \in DocumentedReplies : FetchSettles(h, raw)
  \/ \E h \in Handlers, raw \in DocumentedReplies : FinalSettles(h, raw)
  \/ \E h \in Handlers, ok \in BOOLEAN : ToolsListSettles(h, ok)
  \/ \E h \in Handlers, reply \in SubmitReplies : ToolSubmitSettles(h, reply)
  \/ \E h \in Handlers, raw \in DocumentedReplies : ToolFetchSettles(h, raw)

ServersSpec == Init /\ [][ServersNext]_vars

\* ---- properties of the HTTP dispatcher (Spec) ----

\* Handler h serves, or has served last, a search-type tools/call.
SearchCall(h) ==
  /\ req[h].transport = "http" /\ req[h].method = "tools/call"
  /\ req[h].hasParams /\ req[h].tool = "search_flights"

\* The arguments hold at least two legs and every leg has a segment.
RoundTripWithSegments(args) ==
  /\ args.present /\ args.hasLegs /\ Len(args.legs) >= 2
  /\ \A k \in 1..Len(args.legs) : args.legs[k]

\* Handler h has an upstream call behind it or pending.
Upstream(h) ==
  \/ pc[h] \in {"submit", "sleep", "fetch", "final", "tool_submit", "tool_fetch"}
  \/ submits[h] > 0 \/ fetches[h] > 0

\* C7: a search_flights call is submitted upstream only when its arguments
\* hold at least two legs, each with at least one segment; a call with no
\* legs, one leg or a leg without segments is over, answered with an error,
\* in the step that receives it, with no POST and no GET issued.
C7_ValidatedBeforeUpstream ==
  \A h \in Handlers :
    SearchCall(h) =>
      /\ Upstream(h) => RoundTripWithSegments(req[h].args)
      /\ ~RoundTripWithSegments(req[h].args)
           => /\ pc[h] = "responded" /\ Len(out[h]) = 1
              /\ out[h][1].kind = "error"
              /\ submits[h] = 0 /\ fetches[h] = 0

C7_Witness ==
  \E h, g \in Handlers :
    /\ SearchCall(g) /\ pc[g] = "fetch" /\ Len(req[g].args.legs) = 2
    /\ SearchCall(h) /\ req[h].args.legs = <<TRUE>>
    /\ pc[h] = "responded" /\ out[h][1].kind = "error" /\ issued = 1

\* C8 as stated: a search_flights call whose arguments lack legs or segments
\* is answered with an error other than the -32603 internal-error envelope.
C8_ValidationNotInternalError ==
  \A h \in Handlers :
    (SearchCall(h) /\ req[h].args.present
       /\ ~RoundTripWithSegments(req[h].args) /\ pc[h] = "responded")
      => \A k \in 1..Len(out[h]) : out[h][k].code # -32603

\* The request names a tool outside the tool table, or a method outside the
\* method table.
UnknownTool(r) ==
  r.transport = "http" /\ r.method = "tools/call" /\ r.hasParams
    /\ r.tool \notin HttpTools
UnknownMethod(r) ==
  r.transport = "http"
    /\ r.method \notin {"initialize", "notifications/initialized", "initialized",
                        "tools/list", "resources/list", "resources/read",
                        "tools/call"}

\* C10: a tools/call for an unknown tool and a request with an unknown method
\* are answered, in the step that receives them, with one error envelope of
\* code -32601 and never with a result; that step issues no upstream call
\* and leaves the last-result slot as it was.
C10_UnknownToolOrMethod ==
  /\ [](\A h \in Handlers :
          (UnknownTool(req[h]) \/ UnknownMethod(req[h]))
            => /\ pc[h] = "responded" /\ Len(out[h]) = 1
               /\ out[h][1].kind = "error" /\ out[h][1].code = -32601
               /\ ~Upstream(h))
  /\ [][\A h \in Handlers :
          (req'[h] # req[h] /\ (UnknownTool(req'[h]) \/ UnknownMethod(req'[h])))
            => /\ lastFlightResults' = lastFlightResults
               /\ issued' = issued]_vars

C10_Witness ==
  \E h, g \in Handlers :
    /\ UnknownTool(req[h]) /\ out[h][1].code = -32601
    /\ lastFlightResults.tag = "enhanced" /\ req[g].id < req[h].id /\ SearchCall(g)

\* Handler h serves, or has served last, a POST /mcp request.
HttpCall(h) == req[h].transport = "http"

\* The first stretch of the handler throws on request r: params is missing
\* where it is destructured, or a search call fails validation, or
\* get_session_results is called without arguments.
ThrowsAtOnce(r) ==
  /\ r.transport = "http"
  /\ \/ r.method \in {"resources/read", "tools/call"} /\ ~r.hasParams
     \/ /\ r.method = "tools/call" /\ r.hasParams
        /\ \/ r.tool = "search_flights" /\ ~RoundTripWithSegments(r.args)
           \/ r.tool = "get_session_results" /\ ~r.args.present

\* Handler h has just written the internal-error envelope for its request,
\* and nothing else.
CaughtNow(h) ==
  /\ pc'[h] = "responded" /\ Len(out'[h]) = 1
  /\ out'[h][1].kind = "error" /\ out'[h][1].code = -32603
  /\ out'[h][1].http = 500 /\ out'[h][1].id = req'[h].id

\* C11: a POST /mcp handler writes no response while it runs and exactly
\* one when it ends, it ends in no other way, and (every awaited call
\* settling) it does end; every exception (a throw
\* in the first stretch, a failed or id-less submission, a failed terminal
\* fetch, a failed tool call or tools/list fetch) is answered in that step
\* with the -32603 envelope carrying the request's id.
C11_OneResponseErrorsCaught ==
  /\ [](\A h \in Handlers :
          HttpCall(h)
            => /\ pc[h] \notin {"idle", "silent", "done"}
               /\ Len(out[h]) = IF pc[h] = "responded" THEN 1 ELSE 0)
  /\ [][\A h \in Handlers :
          /\ (req'[h] # req[h] /\ ThrowsAtOnce(req'[h])) => CaughtNow(h)
          /\ HttpCall(h) =>
               /\ \A reply \in {"http_error", "no_request_id"} :
                    SubmitSettles(h, reply) => CaughtNow(h)
               /\ FinalSettles(h, FetchFailed) => CaughtNow(h)
               /\ ToolsListSettles(h, FALSE) => CaughtNow(h)
               /\ ToolSubmitSettles(h, "http_error") => CaughtNow(h)
               /\ ToolFetchSettles(h, FetchFailed) => CaughtNow(h)]_vars
  /\ \A h \in Handlers :
       (HttpCall(h) /\ pc[h] # "responded") ~> (pc[h] = "responded")

C11_Witness ==
  \E h \in Handlers :
    /\ SearchCall(h) /\ RoundTripWithSegments(req[h].args)
    /\ pc[h] = "responded" /\ Len(out[h]) = 1
    /\ out[h][1].code = -32603 /\ out[h][1].id = req[h].id
    /\ out[h][1].data = "No request_id returned from submit_session"

\* The request reads the widget resource.
WidgetRead(r) ==
  r.transport = "http" /\ r.method = "resources/read" /\ r.hasParams
    /\ r.uri = WidgetUri

\* Handler h has just answered its request with the result `payload`.
AnsweredNow(h, payload) ==
  /\ pc'[h] = "responded" /\ Len(out'[h]) = 1
  /\ out'[h][1].kind = "result" /\ out'[h][1].http = 200
  /\ out'[h][1].id = req'[h].id /\ out'[h][1].payload = payload

\* C12: a resources/read of the widget received while the slot was never
\* written is answered in that step with a result whose injected tool output
\* is null, not with an error.
C12_EmptySlotReadsNull ==
  [][\A h \in Handlers :
       (req'[h] # req[h] /\ WidgetRead(req'[h]) /\ lastFlightResults = Undefined)
         => AnsweredNow(h, Null)]_vars

C12_Witness ==
  \E h, g \in Handlers :
    /\ WidgetRead(req[h]) /\ pc[h] = "responded" /\ lastFlightResults = Undefined
    /\ out[h][1].kind = "result" /\ out[h][1].payload = Null
    /\ SearchCall(g) /\ pc[g] = "fetch"

\* Handler h ends a tools/call with a result in this step.
ToolSucceedsNow(h) ==
  /\ HttpCall(h) /\ req[h].method = "tools/call"
  /\ pc[h] # "responded" /\ pc'[h] = "responded"
  /\ req'[h] = req[h] /\ out'[h][1].kind = "result"

\* The slot holds what the payload p reports.
SlotHolds(slot, p) ==
  /\ slot.request_id = p.request_id /\ slot.status = p.status
  /\ slot.totalResults = p.totalResults

\* C13 as stated: once a tools/call of any tool has produced a result, the
\* slot holds that result.
C13_SlotHoldsLastToolResult ==
  [][\A h \in Handlers :
       ToolSucceedsNow(h) => SlotHolds(lastFlightResults', out'[h][1].payload)]_vars

\* C13 amended: the slot is written by search_flights alone. A search that
\* ends with a result stores that result in the same step; no other step
\* changes the slot, so a submit_session or get_session_results result never
\* reaches it; and a widget read injects what the slot holds when the read
\* is received.
C13_SlotHoldsLastSearchResult ==
  [][/\ \A h \in Handlers :
          /\ (ToolSucceedsNow(h) /\ SearchCall(h))
               => lastFlightResults' = out'[h][1].payload
          /\ (ToolSucceedsNow(h) /\ ~SearchCall(h))
               => lastFlightResults' = lastFlightResults
          /\ (req'[h] # req[h] /\ WidgetRead(req'[h]))
               => AnsweredNow(h, WidgetToolOutput(lastFlightResults))
     /\ lastFlightResults' # lastFlightResults
          => \E h \in Handlers : ToolSucceedsNow(h) /\ SearchCall(h)]_vars

C13_Witness ==
  \E h \in Handlers :
    /\ HttpCall(h) /\ req[h].tool = "get_session_results"
    /\ pc[h] = "responded" /\ out[h][1].kind = "result"
    /\ lastFlightResults.tag = "enhanced"
    /\ out[h][1].payload.request_id = lastFlightResults.request_id
    /\ ~SlotHolds(lastFlightResults, out[h][1].payload)

\* Handler h receives in this step a request of method m.
ReceivesNow(h, methods) ==
  req'[h] # req[h] /\ req'[h].transport = "http" /\ req'[h].method \in methods

\* Handler h ends a tools/call with an error in this step: at once, or after
\* an await.
ToolFailsAtOnce(h) ==
  /\ ReceivesNow(h, {"tools/call"})
  /\ pc'[h] = "responded" /\ out'[h][1].kind = "error"
ToolFailsLater(h) ==
  /\ HttpCall(h) /\ req[h].method = "tools/call" /\ req'[h] = req[h]
  /\ pc[h] # "responded" /\ pc'[h] = "responded" /\ out'[h][1].kind = "error"

\* The slot is left alone.
SlotFrame == lastFlightResults' = lastFlightResults

\* What holds of every method but tools/call, and of a tools/call that fails
\* at once: the slot keeps its value and the handler issues no POST and no
\* GET to the upstream (tools/list only awaits the server's own GET /mcp).
C15_FrameOfTheRest ==
  \A h \in Handlers :
    /\ ReceivesNow(h, {"initialize", "notifications/initialized", "initialized",
                       "resources/list", "resources/read"})
         => pc'[h] = "responded" /\ SlotFrame /\ issued' = issued
    /\ ReceivesNow(h, {"tools/list"})
         => /\ pc'[h] = "tools_list" /\ submits'[h] = 0 /\ fetches'[h] = 0
            /\ SlotFrame /\ issued' = issued
    /\ (pc[h] = "tools_list" /\ pc'[h] # "tools_list")
         => pc'[h] = "responded" /\ SlotFrame /\ issued' = issued
    /\ ToolFailsAtOnce(h) => SlotFrame /\ issued' = issued

\* C15 as stated: the methods other than tools/call and every failing
\* tools/call leave the slot unchanged, and a failing tools/call has issued
\* no upstream call besides the one that failed.
C15_FailureMakesOneCallAtMost ==
  [][/\ C15_FrameOfTheRest
     /\ \A h \in Handlers :
          ToolFailsLater(h) => SlotFrame /\ submits[h] + fetches[h] <= 1]_vars

\* C15 amended: as stated for the slot; a tools/call that fails after an
\* await has issued exactly the failed POST, or exactly the failed GET of
\* get_session_results, or, when the terminal fetch of a search fails, the
\* POST that created the session, the ten GETs of the loop and the terminal
\* GET.
C15_FrameOfFailures ==
  [][/\ C15_FrameOfTheRest
     /\ \A h \in Handlers :
          ToolFailsLater(h)
            => /\ SlotFrame
               /\ \/ pc[h] \in {"submit", "tool_submit"}
                     /\ submits[h] = 1 /\ fetches[h] = 0
                  \/ pc[h] = "tool_fetch" /\ submits[h] = 0 /\ fetches[h] = 1
                  \/ pc[h] = "final" /\ SearchCall(h) /\ submits[h] = 1
                     /\ fetches[h] = maxAttempts + 1]_vars

\* The only request was a search whose session was created and which was
\* answered with an error: its terminal fetch failed.
C15_Witness ==
  \E h \in Handlers :
    /\ received = 1 /\ issued = 1 /\ SearchCall(h) /\ pc[h] = "responded"
    /\ out[h][1].kind = "error" /\ out[h][1].data = "Navifare API error"
    /\ lastFlightResults = Undefined

\* C16: whatever the state of the server, an answered resources/list
\* carries exactly one descriptor, the widget uri with type
\* text/html+skybridge; an answered read of that uri carries one content
\* with the uri asked for and the same type; a read of another uri is
\* answered with error -32602 and no content.
C16_OneFixedResource ==
  \A h \in Handlers :
    (HttpCall(h) /\ pc[h] = "responded") =>
      /\ req[h].method = "resources/list"
           => /\ out[h][1].kind = "result"
              /\ out[h][1].contents =
                   <<[uri |-> "ui://widget/flight-results.html",
                      mimeType |-> "text/html+skybridge"]>>
      /\ WidgetRead(req[h])
           => /\ out[h][1].kind = "result" /\ Len(out[h][1].contents) = 1
              /\ out[h][1].contents[1].uri = req[h].uri
              /\ out[h][1].contents[1].mimeType = "text/html+skybridge"
      /\ (req[h].method = "resources/read" /\ req[h].hasParams
            /\ req[h].uri # "ui://widget/flight-results.html")
           => /\ out[h][1].kind = "error" /\ out[h][1].code = -32602
              /\ out[h][1].contents = <<>>

C16_Witness ==
  \E h \in Handlers :
    /\ HttpCall(h) /\ WidgetRead(req[h]) /\ pc[h] = "responded"
    /\ out[h][1].contents[1].mimeType = "text/html+skybridge"
    /\ out[h][1].payload.tag = "enhanced"

\* ---- properties of concurrent searches (RaceSpec) ----

\* C14: when a search ends with a result while the other handler's search
\* has already been answered, the slot takes the payload of the one ending
\* now, whichever was received first; and a widget read is answered with
\* what the slot holds, whoever wrote it. So the slot follows the order of
\* completion and a read after one search's response can carry the other's
\* payload.
C14_LastCompletedWins ==
  [][\A h, g \in Handlers :
       /\ (h # g /\ SearchCall(h) /\ SearchCall(g) /\ ToolSucceedsNow(h)
              /\ pc[g] = "responded" /\ out[g][1].kind = "result")
            => lastFlightResults' = out'[h][1].payload
       /\ (h # g /\ req'[h] # req[h] /\ WidgetRead(req'[h]) /\ SearchCall(g)
              /\ pc[g] = "responded" /\ out[g][1].kind = "result"
              /\ lastFlightResults = out[g][1].payload)
            => AnsweredNow(h, out[g][1].payload)]_vars

\* The third request, a read on the handler that answered the first search,
\* carries the payload of the second search, answered on the other handler.
C14_Witness ==
  \E h, g \in Handlers :
    /\ h # g /\ issued = 2
    /\ WidgetRead(req[h]) /\ req[h].id = 3 /\ pc[h] = "responded"
    /\ SearchCall(g) /\ req[g].id = 2 /\ pc[g] = "responded"
    /\ out[g][1].kind = "result" /\ out[g][1].payload.request_id = 1
    /\ out[h][1].payload = out[g][1].payload

\* ---- properties of the argument normalisation (NormSpec) ----

\* C17 as stated: the body any dispatcher hands to the upstream client is
\* the normalised form of the tool arguments it received.
C17_SubmittedIsNormalized ==
  submitted.by # "none" => submitted.body = SanitizeFields(toolArgs)

\* The positions <<leg, segment>> of the segments of arguments a, and the
\* two time fields of a segment.
SegmentsOf(a) ==
  UNION {{<<i, j>> : j \in 1..Len(a.legs[i].segments)} : i \in 1..Len(a.legs)}
TimeFields == {"departureTime", "arrivalTime"}

\* sanitizeSubmitArgs has run on toolArgs, and `rule` relates every time
\* field before to the same field after.
TimesRelated(rule(_, _)) ==
  submitted.by = "http" =>
    \A p \in SegmentsOf(toolArgs) : \A f \in TimeFields :
      rule(toolArgs.legs[p[1]].segments[p[2]][f],
           submitted.body.legs[p[1]].segments[p[2]][f])

Suffixed(t) == Str(t.str \o <<":", "0", "0">>)
AllZero == Str(<<"0", "0", ":", "0", "0", ":", "0", "0">>)

Digits == {"0", "1", "2", "3", "4", "5", "6", "7", "8", "9"}
IsHHMMSS(v) ==
  /\ v.type = "string" /\ Len(v.str) = 8
  /\ \A k \in {1, 2, 4, 5, 7, 8} : v.str[k] \in Digits
  /\ \A k \in {3, 6} : v.str[k] = ":"

\* C19 as stated: after sanitizeSubmitArgs every time field of every segment
\* has the form HH:MM:SS.
C19_TimesAreHHMMSS ==
  LET rule(t, u) == IsHHMMSS(u)
  IN TimesRelated(rule)

\* C20: after sanitizeSubmitArgs on an arguments object, a source that was
\* absent, not a string, or a string that is none of MANUAL, KAYAK,
\* GOOGLE_FLIGHTS, BOOKING in any letter case, is "MANUAL".
C20_UnknownSourceIsManual ==
  (/\ submitted.by = "http" /\ toolArgs.isObject
   /\ \/ toolArgs.source.type # "string"
      \/ toUpperCase(toolArgs.source.text)
           \notin {"MANUAL", "KAYAK", "GOOGLE_FLIGHTS", "BOOKING"})
    => submitted.body.source = [type |-> "string", text |-> "MANUAL"]

C20_Witness ==
  /\ submitted.by = "http" /\ toolArgs.source = SrcStr("ChatGPT")
  /\ submitted.body.source = SrcStr("MANUAL")

\* C21 as stated: after sanitizeSubmitArgs on an arguments object the source
\* is exactly one of MANUAL, KAYAK, GOOGLE_FLIGHTS, BOOKING, also when the
\* input was a case variant of one of them.
C21_SourceInAllowList ==
  (submitted.by = "http" /\ toolArgs.isObject) =>
    /\ submitted.body.source.type = "string"
    /\ submitted.body.source.text
         \in {"MANUAL", "KAYAK", "GOOGLE_FLIGHTS", "BOOKING"}

\* sanitizeSubmitArgs has run on an arguments object whose location is a
\* string with something in it: its trimmed text.
LocationGiven ==
  /\ submitted.by = "http" /\ toolArgs.isObject
  /\ toolArgs.location.type = "string" /\ trim(toolArgs.location.chars) # <<>>
GivenLoc == trim(toolArgs.location.chars)
TimezoneNames == {timezoneToCountry[k].name : k \in DOMAIN timezoneToCountry}

\* C22 as stated: the location is resolved by the first step that applies:
\* a name of the timezone table gives its code; two letters are upper-cased;
\* a prefix, a hyphen and two letters give the two letters; a country name
\* contained in the text gives its code; a bare token of two capitals other
\* than EU is taken; otherwise the field is removed.
C22_LocationResolutionOrder ==
  LocationGiven =>
    LET loc == GivenLoc
        res == submitted.body.location
    IN IF loc \in TimezoneNames
         THEN \E k \in DOMAIN timezoneToCountry :
                /\ timezoneToCountry[k].name = loc
                /\ res = LocStr(timezoneToCountry[k].code)
       ELSE IF IsTwoLetters(loc) THEN res = LocStr(toUpperCaseChars(loc))
       ELSE IF Cardinality(Hyphens(loc)) = 1 /\ IsTwoLetters(SecondOfTwoParts(loc))
         THEN res = LocStr(toUpperCaseChars(SecondOfTwoParts(loc)))
       ELSE IF CountriesIn(toLowerCaseChars(loc)) # {}
         THEN \E k \in CountriesIn(toLowerCaseChars(loc)) :
                res = LocStr(cityCountryMapping[k].code)
       ELSE IF BareTokens(loc) # {} /\ FirstBareToken(loc) # <<"E", "U">>
         THEN res = LocStr(FirstBareToken(loc))
       ELSE BareTokens(loc) = {} => res = LocAbsent

\* C23 as stated: after sanitizeSubmitArgs on an arguments object the
\* location is absent or a string of exactly two capital letters.
C23_LocationAbsentOrCode ==
  (submitted.by = "http" /\ toolArgs.isObject) =>
    LET res == submitted.body.location
    IN \/ res.type = "undefined"
       \/ /\ res.type = "string" /\ Len(res.chars) = 2
          /\ \A k \in 1..2 : res.chars[k] \in Range(UpperLetters)

\* A text of digits, a dot and two digits.
IsTwoDecimals(v) ==
  /\ v.type = "string" /\ Len(v.chars) >= 4
  /\ v.chars[Len(v.chars) - 2] = "."
  /\ \A k \in 1..Len(v.chars) : k # Len(v.chars) - 2 => IsDigit(v.chars[k])

\* C27 as stated: after sanitizeSubmitArgs a string or number price that
\* contains a digit is a number with exactly two decimals ("8" gives "8.00"),
\* and one that contains no digit is the price that was given.
C27_PriceRule ==
  (/\ submitted.by = "http" /\ toolArgs.isObject
   /\ toolArgs.price.type \in {"string", "number"}) =>
    /\ (\E k \in 1..Len(toolArgs.price.chars) : IsDigit(toolArgs.price.chars[k]))
         => IsTwoDecimals(submitted.body.price)
    /\ toolArgs.price.chars = <<"8">>
         => submitted.body.price = PriceStr(<<"8", ".", "0", "0">>)
    /\ (\A k \in 1..Len(toolArgs.price.chars) : ~IsDigit(toolArgs.price.chars[k]))
         => submitted.body.price = toolArgs.price

\* C24 as stated: sanitizeSubmitArgs is idempotent: run on an object it
\* returned, it returns an object with the same value in every field.
C24_Idempotent ==
  submitted.by = "http" =>
    /\ ~SanitizeThrows(submitted.body)
    /\ SanitizeFields(submitted.body) = submitted.body

\* sanitizeSubmitArgs has filled in what was missing: legs is an array, empty
\* if there was none, and both infant counts are numbers, 0 if they were not.
DefaultsFilled ==
  LET made == submitted.body
  IN /\ made.tripType = "object" /\ made.hasLegs /\ made.legsType = "array"
     /\ ~toolArgs.hasLegs => made.legs = <<>>
     /\ \A f \in {"infantsInSeat", "infantsOnLap"} :
          /\ made[f].type = "number"
          /\ toolArgs[f].type # "number" => made[f].num = 0

\* C25 as stated: sanitizeSubmitArgs throws for no arguments, whatever their
\* shape, and on an arguments object it fills in the defaults.
C25_NeverThrows ==
  /\ submitted.by # "caught"
  /\ (submitted.by = "http" /\ toolArgs.isObject) => DefaultsFilled

\* C26 as stated: after sanitizeSubmitArgs the object the caller passed,
\* its trip, legs and segments included, is as it was before the call.
C26_CallerUnchanged ==
  submitted.by \in {"http", "caught"} => submitted.caller = toolArgs

\* ---- properties of the result formatting (FormatSpec) ----

\* C28: a formatted result has fareType "Special Fare" exactly when the
\* private_fare of the raw result at its position is the string "true"; the
\* boolean true, the string "false" and an absent field give "Standard Fare".
C28_SpecialFareIffStringTrue ==
  formatted.kind = "formatted" =>
    \A k \in 1..Len(formatted.results) :
      LET pf == jsonData.results[k].private_fare
      IN /\ formatted.results[k].fareType \in {"Special Fare", "Standard Fare"}
         /\ formatted.results[k].fareType = "Special Fare"
              <=> (pf.type = "string" /\ pf.text = "true")

C28_Witness ==
  /\ formatted.kind = "formatted" /\ Len(formatted.results) = 2
  /\ jsonData.results[1].private_fare = [type |-> "string", text |-> "true"]
  /\ jsonData.results[2].private_fare = [type |-> "boolean", text |-> "true"]
  /\ formatted.results[1].fareType = "Special Fare"
  /\ formatted.results[2].fareType = "Standard Fare"

\* C29: for a results array of length n the formatted results have length n,
\* the i-th is made of the i-th raw result and has rank i, totalResults is n
\* and the body is returned alongside as rawData; for results that are absent
\* or not an array the body itself is returned.
C29_RanksFollowUpstreamOrder ==
  formatted.kind # "none" =>
    IF jsonData.resultsKind = "array"
      THEN /\ formatted.kind = "formatted"
           /\ Len(formatted.results) = Len(jsonData.results)
           /\ \A i \in 1..Len(jsonData.results) :
                /\ formatted.results[i].rank = i
                /\ formatted.results[i].price[1] = jsonData.results[i].price
           /\ formatted.totalResults = Len(jsonData.results)
           /\ formatted.request_id = jsonData.request_id
           /\ formatted.status = jsonData.status
           /\ formatted.rawData = jsonData
    ELSE formatted.kind = "data" /\ formatted.rawData = jsonData

C29_Witness ==
  /\ formatted.kind = "formatted" /\ formatted.totalResults = 2
  /\ jsonData.results[1].price = "99" /\ jsonData.results[2].price = "84"
  /\ formatted.results[1].rank = 1 /\ formatted.results[1].price[1] = "99"
  /\ formatted.results[2].rank = 2 /\ formatted.results[2].price[1] = "84"

\* ---- properties of both dispatchers (ServersSpec) ----

\* C9: every result or error envelope a handler writes carries the id of the
\* request that handler serves, whatever the other handler received or
\* answered in the meantime.
C9_IdEchoed ==
  \A h \in Handlers : \A k \in 1..Len(out[h]) :
    out[h][k].kind \in {"result", "error"} => out[h][k].id = req[h].id

C9_Witness ==
  \E h, g \in Handlers :
    /\ req[h].id < req[g].id /\ req[h].transport = req[g].transport
    /\ pc[h] = "fetch" /\ attempt[h] = maxAttempts
    /\ pc[g] = "responded" /\ out[g][1].kind \in {"result", "error"}
    /\ out[g][1].id = req[g].id /\ out[g][1].id # req[h].id

\* ---- properties of generateTripSummary (SummarySpec) ----

\* The argument has a first segment, and its departureDate is a string that
\* is not a date.
MalformedDepartureDate(fd) ==
  /\ fd.shape = "legs" /\ Len(fd.legs) >= 1
  /\ ~fd.legs[1].isNull /\ fd.legs[1].hasSegments
  /\ Len(fd.legs[1].segments) >= 1 /\ ~fd.legs[1].segments[1].isNull
  /\ fd.legs[1].segments[1].departureDate.type = "string"
  /\ NewDate(fd.legs[1].segments[1].departureDate).nan

\* A leg without segments: null, without the property, or with none.
LacksSegments(leg) == leg.isNull \/ ~leg.hasSegments \/ Len(leg.segments) = 0

\* C35: generateTripSummary returns null or a summary record; it returns
\* null when the trip has no legs, when the first or the last leg has no
\* segments, and when the first segment's departureDate is malformed.
C35_NullOnFailure ==
  tripSummary # NotSummarised
    => /\ tripSummary.kind \in {"null", "summary"}
       /\ (cleanedArgs.shape # "legs" \/ Len(cleanedArgs.legs) = 0)
            => tripSummary = NullSummary
       /\ (cleanedArgs.shape = "legs" /\ Len(cleanedArgs.legs) >= 1
             /\ (LacksSegments(cleanedArgs.legs[1])
                   \/ LacksSegments(cleanedArgs.legs[Len(cleanedArgs.legs)])))
            => tripSummary = NullSummary
       /\ MalformedDepartureDate(cleanedArgs) => tripSummary = NullSummary

\* The collaborator's reply is a complete trip: an object that is not the
\* needsMoreInfo signal, with at least one leg, at least one segment in every
\* leg, every field in every segment, the adults and the travel class.
CompleteTrip(g) ==
  /\ g.kind = "json" /\ ~g.needsMoreInfo /\ g.hasTrip
  /\ g.legsKind = "array" /\ Len(g.legs) >= 1
  /\ \A l \in 1..Len(g.legs) :
       /\ g.legs[l].segmentsKind = "array" /\ Len(g.legs[l].segments) >= 1
       /\ \A k \in 1..Len(g.legs[l].segments) :
            g.legs[l].segments[k] = SegmentFields
  /\ g.adults >= 1 /\ g.hasTravelClass

C37_CompleteTripProceeds ==
  (handled # NotHandled /\ CompleteTrip(geminiReply))
    => /\ ~handled.parsed.needsMoreInfo
       /\ handled.step = "submit_and_poll_session"

\* C38: a request of the stdio server that carries an id gets exactly one
\* response; a tools/call of a tool the server does not have, a method it
\* does not have and an exception raised while handling are each answered
\* with an error envelope.
C38_MisuseAnsweredWithError ==
  \A h \in Handlers :
    (/\ req[h].transport = "stdio" /\ req[h].method # "<invalid json>"
     /\ pc[h] \in {"responded", "silent"})
      => /\ Len(out[h]) = 1
         /\ (req[h].method = "tools/call" /\ req[h].hasParams
               /\ req[h].tool \notin StdioTools)
              => out[h][1].kind = "error"
         /\ req[h].method \notin {"initialize", "tools/list", "tools/call"}
              => out[h][1].kind = "error"
         /\ (req[h].method = "tools/call" /\ ~req[h].hasParams)
              => out[h][1].kind = "error"

\* ---- properties of the results widget (WidgetSpec) ----

\* C39: while the displayed status is IN_PROGRESS the widget keeps
\* refreshing: a refresh is scheduled, in flight, or about to be scheduled
\* by the render of a response, also after a response that changed nothing;
\* and a refresh is scheduled only for the status IN_PROGRESS.
C39_RefreshesWhileInProgress ==
  /\ (effectDeps # NoDeps /\ toolOutput.request_id # NoId
       /\ toolOutput.status = "IN_PROGRESS" /\ refreshes < MaxRefreshes)
       => (timer \/ calling \/ effectDeps # Deps(toolOutput))
  /\ timer => effectDeps[1] = "IN_PROGRESS"

====
